---- MODULE Spec2Model ----
(***************************************************************************)
(* Model of the adaptive funding-rate scheduling engine:                   *)
(*   - ExtractFundingRateHistory._rate_limited_request (rate limiter)      *)
(*   - FundingIntervalDetector (cadence classifier with cache)             *)
(*   - AdvancedFundingRateScheduler (start/stop, polling loop, triggers)   *)
(*   - ExtractFundingRateHistory._find_symbol_start_time (discovery)       *)
(*   - ExtractFundingRateHistory._process_single_symbol (backfill pages)   *)
(*   - _extract_funding_data, the cadence handlers, verification           *)
(*   - ExtractFundingRateRealtime: start/stop, its two buckets, and its    *)
(*     use of the `schedule` module next to the scheduler                  *)
(* Each component has its own specification (SpecFetch, SpecClassify,      *)
(* SpecLog, SpecSched, SpecLoop, SpecLaunch, SpecShared, SpecRealtime,     *)
(* SpecHistory, SpecBackfill, SpecRunner, SpecReport, SpecExtract,         *)
(* SpecHandler, SpecVerify) over the shared variable tuple; a              *)
(* specification leaves the variables of the other components unchanged.   *)
(* SpecHistoryLive and SpecBackfillLive add the weak fairness of the two   *)
(* loops whose termination is checked.                                     *)
(***************************************************************************)
EXTENDS Integers, Sequences, FiniteSets, TLC

(***************************************************************************)
(* Bounds of the model.                                                    *)
(***************************************************************************)
\* latest instant of the simulated clock of the rate limiter (half seconds)
MaxTime == 8
\* number of outbound requests issued through the rate limiter
MaxRequests == 3
\* number of detect_funding_intervals calls in the classifier specification
MaxDetectCalls == 2
\* number of start_scheduler / stop_scheduler calls on the scheduler
MaxCalls == 3
\* number of trigger instants the wall clock passes (00:00, 00:05, 01:00, ..)
MaxTicks == 2
\* number of _find_symbol_start_time calls for the instrument
MaxDiscoveries == 2
\* number of full batches in the largest bucket handed to the runner
MaxBatches == 3
\* largest bucket in the specification of the handlers' reporting
MaxBucket == 100
\* number of executions of a cadence handler
MaxRuns == 2
\* instruments with a fresh record / without a record in the verified bucket
MaxFresh == 120
MaxMissing == 21
\* number of pages the longest modelled history needs in a backfill
MaxPages == 3
\* number of full batches in the largest bucket a handler execution gets
MaxHandlerBatches == 2

(***************************************************************************)
(* Program constants.  The clock of the rate limiter counts half seconds,  *)
(* so the 1.5 s of _min_request_interval are 3 units.                      *)
(***************************************************************************)
MinRequestInterval == 3
HistoryCap == 100

\* self.symbols of the scheduler / the instruments known to the classifier
Symbols == <<"A", "B">>
\* concurrent callers of the fetcher
Callers == {"c1", "c2"}

Range(s) == {s[i] : i \in DOMAIN s}
SymSet == Range(Symbols)

VARIABLES
    \* ---- ExtractFundingRateHistory (rate limiter) ----
    now,                \* simulated time.time(), in half seconds
    request_lock,       \* holder of self._request_lock, "free" when unlocked
    last_request_time,  \* self._last_request_time
    fpc,                \* position of every caller inside _rate_limited_request
    wake,               \* instant at which a caller's time.sleep() may return
    issued,             \* history: instants at which session.get was called
    \* ---- FundingIntervalDetector ----
    cache_data,         \* self.cache_data (intervals, detection_history)
    cache_file,         \* the document _save_cache last wrote
    market,             \* what the premiumIndex endpoint reports per symbol
    detect_calls,       \* number of detect_funding_intervals calls made
    last_detect,        \* history: arguments and outcome of the last call
    \* ---- AdvancedFundingRateScheduler ----
    is_running,         \* self.is_running
    scheduler_thread,   \* self.scheduler_thread (0 = None)
    symbols_1h, symbols_4h, symbols_8h,
    jobs,               \* schedule.jobs of the default scheduler
    threads,            \* every _run_scheduler thread ever spawned
    clock,              \* number of trigger instants the wall clock passed
    ctl,                \* the thread calling start_scheduler/stop_scheduler
    last_execution,     \* self.last_1h/4h/8h_execution (0 = None)
    categorized,        \* history: _categorize_symbols has run
    last_cat,           \* history: the last _categorize_symbols run
    stop_signalled      \* history: stop_scheduler ran while the thread lived

VARIABLES
    \* ---- ExtractFundingRateHistory (start-time discovery) ----
    instrument,          \* the funding records the exchange holds for HistSymbol
    symbol_start_times,  \* self._symbol_start_times[HistSymbol]
    start_times_file,    \* the entry _save_start_times_cache last wrote
    blacklisted_symbols, \* BLACKLISTED_SYMBOLS, restricted to HistSymbol
    disc,                \* locals of the running _find_symbol_start_time call
    hlog                 \* history of the discovery calls and their requests

histVars == <<instrument, symbol_start_times, start_times_file,
              blacklisted_symbols, disc, hlog>>

VARIABLES
    \* ---- batch extraction and reporting ----
    runner,              \* _extract_funding_data as a function of its inputs
    handler_run,         \* the last execution of a cadence handler
    report               \* the reporting step of a handler

runVars == <<runner, handler_run, report>>

VARIABLES
    \* ---- verification ----
    store,               \* the realtime collection and whether the query works
    verify_run           \* the last verification handler execution

verifyVars == <<store, verify_run>>

VARIABLES
    \* ---- first-time backfill ----
    backfill             \* the page loop of _process_single_symbol

fillVars == <<backfill>>

VARIABLES
    \* ---- a second user of the process-wide `schedule` module ----
    realtime             \* an ExtractFundingRateRealtime instance

rtVars == <<realtime>>
auxVars == <<histVars, runVars, verifyVars, fillVars, rtVars>>
notHistVars == <<runVars, verifyVars, fillVars, rtVars>>
notRunVars == <<histVars, verifyVars, fillVars, rtVars>>
notVerifyVars == <<histVars, runVars, fillVars, rtVars>>

fetchVars == <<now, request_lock, last_request_time, fpc, wake, issued>>
classVars == <<cache_data, cache_file, market, detect_calls, last_detect>>
schedVars == <<is_running, scheduler_thread, symbols_1h, symbols_4h,
               symbols_8h, jobs, threads, clock, ctl, last_execution,
               categorized, last_cat, stop_signalled>>
vars == <<now, request_lock, last_request_time, fpc, wake, issued,
          cache_data, cache_file, market, detect_calls, last_detect,
          is_running, scheduler_thread, symbols_1h, symbols_4h,
          symbols_8h, jobs, threads, clock, ctl, last_execution,
          categorized, last_cat, stop_signalled,
          instrument, symbol_start_times, start_times_file,
          blacklisted_symbols, disc, hlog,
          runner, handler_run, report, store, verify_run, backfill,
          realtime>>
coreVars == <<fetchVars, classVars, schedVars>>

(***************************************************************************)
(* ExtractFundingRateHistory._rate_limited_request                         *)
(***************************************************************************)
\* __init__: lock free, _last_request_time = 0; time.time() is far from 0
InitFetch ==
    /\ now = MinRequestInterval
    /\ request_lock = "free"
    /\ last_request_time = 0
    /\ fpc = [c \in Callers |-> "idle"]
    /\ wake = [c \in Callers |-> 0]
    /\ issued = <<>>

\* `with self._request_lock:` then current_time / time_since_last / sleep_time
AcquireLock(c) ==
    /\ fpc[c] = "idle"
    /\ request_lock = "free"
    /\ Len(issued) < MaxRequests
    /\ request_lock' = c
    /\ LET time_since_last == now - last_request_time IN
        IF time_since_last < MinRequestInterval
        THEN /\ wake' = [wake EXCEPT ![c] = now + (MinRequestInterval - time_since_last)]
             /\ fpc' = [fpc EXCEPT ![c] = "sleeping"]
        ELSE /\ wake' = wake
             /\ fpc' = [fpc EXCEPT ![c] = "ready"]
    /\ UNCHANGED <<now, last_request_time, issued>>
    /\ UNCHANGED <<auxVars, classVars, schedVars>>

\* time.sleep(sleep_time) returns: never before the requested time has passed
SleepDone(c) ==
    /\ fpc[c] = "sleeping"
    /\ now >= wake[c]
    /\ fpc' = [fpc EXCEPT ![c] = "ready"]
    /\ UNCHANGED <<now, request_lock, last_request_time, wake, issued>>
    /\ UNCHANGED <<auxVars, classVars, schedVars>>

\* self.session.get(...) is called: the outbound request leaves
IssueRequest(c) ==
    /\ fpc[c] = "ready"
    /\ issued' = Append(issued, now)
    /\ fpc' = [fpc EXCEPT ![c] = "inflight"]
    /\ UNCHANGED <<now, request_lock, last_request_time, wake>>
    /\ UNCHANGED <<auxVars, classVars, schedVars>>

\* session.get returns a response (any status code): the timer is stamped
RequestReturns(c) ==
    /\ fpc[c] = "inflight"
    /\ last_request_time' = now
    /\ request_lock' = "free"
    /\ fpc' = [fpc EXCEPT ![c] = "idle"]
    /\ UNCHANGED <<now, wake, issued>>
    /\ UNCHANGED <<auxVars, classVars, schedVars>>

\* session.get raises (timeout, connection error): the with block is left
\* by the exception, the assignment to _last_request_time is skipped
RequestRaises(c) ==
    /\ fpc[c] = "inflight"
    /\ request_lock' = "free"
    /\ fpc' = [fpc EXCEPT ![c] = "idle"]
    /\ UNCHANGED <<now, last_request_time, wake, issued>>
    /\ UNCHANGED <<auxVars, classVars, schedVars>>

\* the simulated clock advances
TickClock ==
    /\ now < MaxTime
    /\ now' = now + 1
    /\ UNCHANGED <<request_lock, last_request_time, fpc, wake, issued>>
    /\ UNCHANGED <<auxVars, classVars, schedVars>>

(***************************************************************************)
(* FundingIntervalDetector                                                 *)
(***************************************************************************)
Cadences == {"1h", "4h", "8h"}
Hours == 0..23
\* a dict symbol -> interval is a function; "none" marks an absent key
EmptyDict == [s \in SymSet |-> "none"]
Keys(d) == {s \in SymSet : d[s] # "none"}

\* one item of the premiumIndex snapshot, per symbol: whether the symbol is
\* in the response, whether nextFundingTime is non-zero, and its UTC hour;
\* malformed: nextFundingTime is null or not a number, so that int() raises
SnapEntries ==
    {[listed |-> FALSE, has_time |-> FALSE, hour |-> 0, malformed |-> FALSE],
     [listed |-> TRUE, has_time |-> FALSE, hour |-> 0, malformed |-> FALSE]}
    \cup {[listed |-> TRUE, has_time |-> TRUE, hour |-> h,
           malformed |-> FALSE] : h \in Hours}
MalformedEntry ==
    [listed |-> TRUE, has_time |-> FALSE, hour |-> 0, malformed |-> TRUE]
\* outcome of requests.get: 200 with data, another status code, an exception
SnapStatus == {"ok", "http_error", "exception"}

\* the cache after _load_cache: the default document, or a JSON object read
\* from the file that has no "intervals" / "detection_history" keys
DefaultCache ==
    [well_formed |-> TRUE, intervals |-> EmptyDict, detection_history |-> <<>>]
KeylessCache ==
    [well_formed |-> FALSE, intervals |-> EmptyDict, detection_history |-> <<>>]

DetermineIntervalFromHour_Swapped(hour) ==
    IF hour % 4 = 0 THEN "4h"
    ELSE IF hour % 8 = 0 THEN "8h"
    ELSE "8h"

DetermineIntervalFromHour(hour) ==
    IF hour % 8 = 0 THEN "8h"
    ELSE IF hour % 4 = 0 THEN "4h"
    ELSE "8h"

\* detection_time of the next record: later than that of the last one
NextDetectionTime(hist) ==
    IF hist = <<>> THEN 1 ELSE hist[Len(hist)].detection_time + 1

\* the per-symbol loop of _analyze_funding_patterns over symbol_data;
\* int() of a malformed nextFundingTime raises, and appending to a missing
\* "detection_history" raises KeyError
RECURSIVE AnalyzeLoop(_, _, _, _, _)
AnalyzeLoop(items, data, wellFormed, res, hist) ==
    IF items = <<>>
    THEN [raised |-> FALSE, result |-> res, history |-> hist]
    ELSE LET s == Head(items)
             e == data[s]
         IN IF e.malformed
            THEN [raised |-> TRUE, result |-> res, history |-> hist]
            ELSE IF ~e.has_time
            THEN AnalyzeLoop(Tail(items), data, wellFormed,
                             [res EXCEPT ![s] = "8h"], hist)
            ELSE LET iv == DetermineIntervalFromHour(e.hour) IN
                 IF ~wellFormed
                 THEN [raised |-> TRUE, result |-> [res EXCEPT ![s] = iv],
                       history |-> hist]
                 ELSE AnalyzeLoop(Tail(items), data, wellFormed,
                                  [res EXCEPT ![s] = iv],
                                  Append(hist,
                                         [symbol |-> s,
                                          next_funding_hour |-> e.hour,
                                          detected_interval |-> iv,
                                          detection_time |->
                                              NextDetectionTime(hist)]))

\* keep the HistoryCap most recent records
CapHistory(hist) ==
    IF Len(hist) > HistoryCap
    THEN SubSeq(hist, Len(hist) - HistoryCap + 1, Len(hist))
    ELSE hist

\* _analyze_funding_patterns answering a failed request with the 8h default
\* for every symbol asked for, instead of {}
AnalyzeFundingPatterns_DefaultOnFailure(cd, toDetect, snap) ==
    IF snap.status # "ok"
    THEN [result |-> [s \in SymSet |-> IF s \in toDetect THEN "8h" ELSE "none"],
          history |-> cd.detection_history, requests |-> 1]
    ELSE LET items == SelectSeq(Symbols,
                          LAMBDA s : snap.data[s].listed /\ s \in toDetect)
             r == AnalyzeLoop(items, snap.data, cd.well_formed, EmptyDict,
                              cd.detection_history)
         IN IF r.raised
            THEN [result |-> EmptyDict, history |-> r.history, requests |-> 1]
            ELSE [result |-> r.result, history |-> CapHistory(r.history),
                  requests |-> 1]

\* _analyze_funding_patterns(symbols): one snapshot request, then the loop;
\* any exception is caught and yields {}
AnalyzeFundingPatterns(cd, toDetect, snap) ==
    IF snap.status # "ok"
    THEN [result |-> EmptyDict, history |-> cd.detection_history, requests |-> 1]
    ELSE LET items == SelectSeq(Symbols,
                          LAMBDA s : snap.data[s].listed /\ s \in toDetect)
             r == AnalyzeLoop(items, snap.data, cd.well_formed, EmptyDict,
                              cd.detection_history)
         IN IF r.raised
            THEN [result |-> EmptyDict, history |-> r.history, requests |-> 1]
            ELSE [result |-> r.result, history |-> CapHistory(r.history),
                  requests |-> 1]

\* detect_funding_intervals ignoring the cache (as with force_update)
DetectFundingIntervals_NoCache(cd, symbols, force_update, snap) ==
    LET a == AnalyzeFundingPatterns(cd, Range(symbols), snap)
    IN [raised |-> FALSE, result |-> a.result,
        cache |-> [cd EXCEPT !.intervals =
                       [s \in SymSet |-> IF a.result[s] # "none"
                                         THEN a.result[s] ELSE @[s]],
                             !.detection_history = a.history],
        requests |-> a.requests, saved |-> Keys(a.result) # {}]

\* detect_funding_intervals(symbols, force_update)
DetectFundingIntervals(cd, symbols, force_update, snap) ==
    IF ~force_update /\ symbols # <<>> /\ ~cd.well_formed
    THEN \* self.cache_data["intervals"] raises KeyError in the cache check
         [raised |-> TRUE, result |-> EmptyDict, cache |-> cd,
          requests |-> 0, saved |-> FALSE]
    ELSE
    LET cached == IF force_update THEN EmptyDict
                  ELSE [s \in SymSet |-> IF s \in Range(symbols)
                                         THEN cd.intervals[s] ELSE "none"]
        toDetect == IF force_update THEN Range(symbols)
                    ELSE {s \in Range(symbols) : cd.intervals[s] = "none"}
    IN IF toDetect = {}
       THEN [raised |-> FALSE, result |-> cached, cache |-> cd,
             requests |-> 0, saved |-> FALSE]
       ELSE
       LET a == AnalyzeFundingPatterns(cd, toDetect, snap)
           cd1 == [cd EXCEPT !.detection_history = a.history]
       IN IF Keys(a.result) # {} /\ ~cd.well_formed
          THEN \* self.cache_data["intervals"][symbol] = ... raises KeyError
               [raised |-> TRUE, result |-> EmptyDict, cache |-> cd1,
                requests |-> a.requests, saved |-> FALSE]
          ELSE [raised |-> FALSE,
                result |-> [s \in SymSet |-> IF a.result[s] # "none"
                                             THEN a.result[s] ELSE cached[s]],
                cache |-> [cd1 EXCEPT !.intervals =
                               [s \in SymSet |-> IF a.result[s] # "none"
                                                 THEN a.result[s] ELSE @[s]]],
                requests |-> a.requests,
                saved |-> Keys(a.result) # {}]

\* the argument lists a caller passes: sublists of the instrument list
SymbolLists == {<<>>, <<"A">>, <<"B">>, <<"A", "B">>}
\* the data of a failed request is never read: one representative
NoData ==
    [s \in SymSet |-> [listed |-> FALSE, has_time |-> FALSE, hour |-> 0,
                       malformed |-> FALSE]]

\* the JSON document _save_cache writes; NoFile before the first save
NoFile == [written |-> FALSE, intervals |-> EmptyDict]
SavedFile(cd) == [written |-> TRUE, intervals |-> cd.intervals]

NoCall == [symbols |-> <<>>, force_update |-> FALSE, raised |-> FALSE,
           result |-> EmptyDict, before |-> EmptyDict, requests |-> 0]

\* __init__: the cache is loaded from the file
InitDetector ==
    /\ cache_data \in {DefaultCache, KeylessCache}
    /\ cache_file = NoFile
    /\ detect_calls = 0
    /\ last_detect = NoCall

\* a cache file written by earlier runs: n records in the decision log
LoadedLog(n) ==
    [i \in 1..n |-> [symbol |-> "A", next_funding_hour |-> 8,
                     detected_interval |-> "8h", detection_time |-> i]]
LoadedCache(n) ==
    [well_formed |-> TRUE,
     intervals |-> [s \in SymSet |-> IF s = "A" THEN "8h" ELSE "none"],
     detection_history |-> LoadedLog(n)]

\* items of a snapshot in which some nextFundingTime may be malformed
LogEntries ==
    {e \in SnapEntries : e.has_time => e.hour \in {4, 8}}
    \cup {MalformedEntry}

\* the classifier started on a cache file whose decision log is nearly full
\* or full
InitLog ==
    /\ cache_data \in {LoadedCache(HistoryCap - 1), LoadedCache(HistoryCap)}
    /\ cache_file = SavedFile(cache_data)
    /\ detect_calls = 0
    /\ last_detect = NoCall
    /\ market \in [SymSet -> LogEntries]

\* the classifier specification: any market, fixed during a behaviour
InitClassify ==
    /\ InitDetector
    /\ market \in [SymSet -> SnapEntries]

\* a call of detect_funding_intervals by some client of the detector; the
\* snapshot request succeeds with the market's data or fails
Detect(symbols, force_update, status) ==
    /\ detect_calls < MaxDetectCalls
    /\ LET snap == [status |-> status,
                    data |-> IF status = "ok" THEN market ELSE NoData]
           d == DetectFundingIntervals(cache_data, symbols, force_update, snap)
       IN /\ cache_data' = d.cache
          /\ cache_file' = IF d.saved THEN SavedFile(d.cache) ELSE cache_file
          /\ last_detect' = [symbols |-> symbols, force_update |-> force_update,
                             raised |-> d.raised, result |-> d.result,
                             before |-> cache_data.intervals,
                             requests |-> d.requests]
    /\ detect_calls' = detect_calls + 1
    /\ market' = market
    /\ UNCHANGED <<auxVars, fetchVars, schedVars>>

(***************************************************************************)
(* AdvancedFundingRateScheduler                                            *)
(***************************************************************************)
ThreadIds == 1..MaxCalls
\* the trigger instants of a day in wall-clock order, as minutes of the day:
\* 00:00, 00:05, 01:00, 01:05, ...
SlotTime(k) == ((k - 1) \div 2) * 60 + ((k - 1) % 2) * 5

\* the hours at which the code registers jobs, in registration order
Hours1h == [i \in 1..24 |-> i - 1]
Hours4h == <<0, 4, 8, 12, 16, 20>>
Hours8h == <<0, 8, 16>>

\* schedule.every().day.at("HH:MM").do(fn) for every hour of the list; a new
\* job waits for the next occurrence of its time
AddJobs(js, hours, minute, kind, cad, epoch) ==
    js \o [i \in 1..Len(hours) |->
              [id |-> <<epoch, Len(js) + i>>, at |-> hours[i] * 60 + minute,
               kind |-> kind, cadence |-> cad, pending |-> FALSE]]

\* _setup_funding_schedules without the `if self.symbols_4h:` guard
SetupFundingSchedules_Unguarded(js, s1h, s4h, s8h, epoch) ==
    LET j1 == IF s1h # <<>> THEN AddJobs(js, Hours1h, 0, "extract", "1h", epoch)
              ELSE js
        j4 == AddJobs(j1, Hours4h, 0, "extract", "4h", epoch)
    IN IF s8h # <<>> THEN AddJobs(j4, Hours8h, 0, "extract", "8h", epoch)
       ELSE j4

\* _setup_funding_schedules
SetupFundingSchedules(js, s1h, s4h, s8h, epoch) ==
    LET j1 == IF s1h # <<>> THEN AddJobs(js, Hours1h, 0, "extract", "1h", epoch)
              ELSE js
        j4 == IF s4h # <<>> THEN AddJobs(j1, Hours4h, 0, "extract", "4h", epoch)
              ELSE j1
    IN IF s8h # <<>> THEN AddJobs(j4, Hours8h, 0, "extract", "8h", epoch)
       ELSE j4

\* _setup_verification_schedules
SetupVerificationSchedules(js, s1h, s4h, s8h, epoch) ==
    LET j1 == IF s1h # <<>> THEN AddJobs(js, Hours1h, 5, "verify", "1h", epoch)
              ELSE js
        j4 == IF s4h # <<>> THEN AddJobs(j1, Hours4h, 5, "verify", "4h", epoch)
              ELSE j1
    IN IF s8h # <<>> THEN AddJobs(j4, Hours8h, 5, "verify", "8h", epoch)
       ELSE j4

\* the snapshots the scheduler's classifier may see: a few hours suffice
SchedHours == {4, 8}
SchedEntries ==
    {e \in SnapEntries : e.has_time => e.hour \in SchedHours}
SchedSnapshots ==
    {[status |-> "ok", data |-> d] : d \in [SymSet -> SchedEntries]}
    \cup {[status |-> st, data |-> NoData] : st \in SnapStatus \ {"ok"}}

\* _categorize_symbols putting every instrument under 1h monitoring as well
CategorizeSymbols_Monitor1h(cd, snap) ==
    LET d == DetectFundingIntervals(cd, Symbols, FALSE, snap)
        interval(s) == IF d.result[s] = "none" THEN "8h" ELSE d.result[s]
    IN [s1h |-> Symbols,
        s4h |-> IF d.raised THEN <<>>
                ELSE SelectSeq(Symbols, LAMBDA s : interval(s) = "4h"),
        s8h |-> IF d.raised THEN Symbols
                ELSE SelectSeq(Symbols,
                               LAMBDA s : interval(s) \notin {"1h", "4h"}),
        cache |-> d.cache, saved |-> d.saved, raised |-> d.raised,
        requests |-> d.requests]

\* _categorize_symbols: the three buckets and the detector's cache afterwards
CategorizeSymbols(cd, snap) ==
    LET d == DetectFundingIntervals(cd, Symbols, FALSE, snap)
        interval(s) == IF d.result[s] = "none" THEN "8h" ELSE d.result[s]
    IN IF d.raised
       THEN \* except branch: all to 8h with 1h monitoring
            [s1h |-> Symbols, s4h |-> <<>>, s8h |-> Symbols,
             cache |-> d.cache, saved |-> d.saved, raised |-> TRUE,
             requests |-> d.requests]
       ELSE [s1h |-> SelectSeq(Symbols, LAMBDA s : interval(s) = "1h"),
             s4h |-> SelectSeq(Symbols, LAMBDA s : interval(s) = "4h"),
             s8h |-> SelectSeq(Symbols, LAMBDA s : interval(s) \notin {"1h", "4h"}),
             cache |-> d.cache, saved |-> d.saved, raised |-> FALSE,
             requests |-> d.requests]

Bucket(cad) ==
    IF cad = "1h" THEN symbols_1h
    ELSE IF cad = "4h" THEN symbols_4h
    ELSE symbols_8h

Alive(t) == threads[t].pc \in {"poll", "handler", "backoff"}

\* the snapshot request of the last _categorize_symbols run failed
CategorizationFailed ==
    categorized /\ last_cat.requests = 1 /\ last_cat.status # "ok"

\* before the first _categorize_symbols run
NoCategorization ==
    [status |-> "ok", raised |-> FALSE, requests |-> 0,
     before |-> DefaultCache, file_before |-> NoFile, prev_failed |-> FALSE]

InitSched ==
    /\ is_running = FALSE
    /\ scheduler_thread = 0
    /\ symbols_1h = <<>>
    /\ symbols_4h = <<>>
    /\ symbols_8h = <<>>
    /\ jobs = <<>>
    /\ threads = [t \in ThreadIds |-> [pc |-> "unborn", batch |-> <<>>, working |-> FALSE]]
    /\ clock = 0
    /\ ctl = [pc |-> "idle", calls |-> 0, last_call |-> "none",
              last_result |-> TRUE, was_running |-> FALSE, noops |-> {}]
    /\ last_execution = [c \in Cadences |-> 0]
    /\ categorized = FALSE
    /\ last_cat = NoCategorization
    /\ stop_signalled = [t \in ThreadIds |-> FALSE]

\* a call returns; the caller's record keeps, as history, the call, its
\* result, the running flag the call found, and which calls returned early
Returned(call, result, found_running, early) ==
    ctl' = [pc |-> "idle", calls |-> ctl.calls + 1, last_call |-> call,
            last_result |-> result, was_running |-> found_running,
            noops |-> IF early THEN ctl.noops \cup {call} ELSE ctl.noops]

\* start_scheduler from Stopped: categorize, register, set the flag, create
\* the thread and start it; Thread.start() either starts the loop or raises
\* RuntimeError (no thread can be created), leaving the thread unstarted
Launch(started) ==
    \E snap \in SchedSnapshots :
      \E c \in {CategorizeSymbols(cache_data, snap)} :
        LET epoch == ctl.calls + 1
            j1 == SetupFundingSchedules(jobs, c.s1h, c.s4h, c.s8h, epoch)
            j2 == SetupVerificationSchedules(j1, c.s1h, c.s4h, c.s8h, epoch)
        IN /\ symbols_1h' = c.s1h
           /\ symbols_4h' = c.s4h
           /\ symbols_8h' = c.s8h
           /\ cache_data' = c.cache
           /\ cache_file' = IF c.saved THEN SavedFile(c.cache) ELSE cache_file
           /\ categorized' = TRUE
           /\ last_cat' = [status |-> snap.status, raised |-> c.raised,
                           requests |-> c.requests, before |-> cache_data,
                           file_before |-> cache_file,
                           prev_failed |-> CategorizationFailed]
           /\ jobs' = j2
           /\ is_running' = TRUE
           /\ scheduler_thread' = epoch
           /\ threads' = IF started
                         THEN [threads EXCEPT ![epoch] =
                                  [pc |-> "poll", batch |-> <<>>,
                                   working |-> FALSE]]
                         ELSE threads
           /\ UNCHANGED <<clock, last_execution, stop_signalled>>

FullStart == Launch(TRUE)

\* start_scheduler without the `if self.is_running` early return
StartScheduler_NoGuard ==
    /\ ctl.pc = "idle"
    /\ ctl.calls < MaxCalls
    /\ FullStart
    /\ Returned("start", TRUE, is_running, FALSE)
    /\ UNCHANGED <<auxVars, fetchVars, market, detect_calls, last_detect>>

\* start_scheduler
StartScheduler ==
    /\ ctl.pc = "idle"
    /\ ctl.calls < MaxCalls
    /\ IF is_running
       THEN UNCHANGED <<is_running, scheduler_thread, symbols_1h, symbols_4h,
                        symbols_8h, jobs, threads, clock, last_execution,
                        categorized, last_cat, stop_signalled, cache_data,
                        cache_file>>
       ELSE FullStart
    /\ Returned("start", TRUE, is_running, is_running)
    /\ UNCHANGED <<auxVars, fetchVars, market, detect_calls, last_detect>>

\* start_scheduler when scheduler_thread.start() raises: the except branch
\* logs the error and returns False
StartSchedulerThreadFails ==
    /\ ctl.pc = "idle"
    /\ ctl.calls < MaxCalls
    /\ ~is_running
    /\ Launch(FALSE)
    /\ Returned("start", FALSE, FALSE, FALSE)
    /\ UNCHANGED <<auxVars, fetchVars, market, detect_calls, last_detect>>

\* stop_scheduler that forgets schedule.clear()
StopScheduler_NoClear ==
    /\ ctl.pc = "idle"
    /\ ctl.calls < MaxCalls
    /\ IF ~is_running
       THEN /\ Returned("stop", TRUE, FALSE, TRUE)
            /\ UNCHANGED <<is_running, jobs, stop_signalled>>
       ELSE /\ is_running' = FALSE
            /\ jobs' = jobs
            /\ stop_signalled' = [t \in ThreadIds |-> stop_signalled[t] \/ Alive(t)]
            /\ IF scheduler_thread # 0 /\ Alive(scheduler_thread)
               THEN ctl' = [ctl EXCEPT !.pc = "joining"]
               ELSE Returned("stop", TRUE, TRUE, FALSE)
    /\ UNCHANGED <<scheduler_thread, symbols_1h, symbols_4h, symbols_8h,
                   threads, clock, last_execution, categorized, last_cat>>
    /\ UNCHANGED <<auxVars, fetchVars, classVars>>

\* stop_scheduler up to the join: early return when not running; otherwise
\* clear the flag, schedule.clear(), and join the thread if it is alive
StopScheduler ==
    /\ ctl.pc = "idle"
    /\ ctl.calls < MaxCalls
    /\ IF ~is_running
       THEN /\ Returned("stop", TRUE, FALSE, TRUE)
            /\ UNCHANGED <<is_running, jobs, stop_signalled>>
       ELSE /\ is_running' = FALSE
            /\ jobs' = <<>>
            /\ stop_signalled' = [t \in ThreadIds |-> stop_signalled[t] \/ Alive(t)]
            /\ IF scheduler_thread # 0 /\ Alive(scheduler_thread)
               THEN ctl' = [ctl EXCEPT !.pc = "joining"]
               ELSE Returned("stop", TRUE, TRUE, FALSE)
    /\ UNCHANGED <<scheduler_thread, symbols_1h, symbols_4h, symbols_8h,
                   threads, clock, last_execution, categorized, last_cat>>
    /\ UNCHANGED <<auxVars, fetchVars, classVars>>

\* scheduler_thread.join(timeout=10) returns: the thread ended, or the
\* timeout expired while it is still alive; stop_scheduler returns True
JoinReturns ==
    /\ ctl.pc = "joining"
    /\ Returned("stop", TRUE, TRUE, FALSE)
    /\ UNCHANGED <<is_running, scheduler_thread, symbols_1h, symbols_4h,
                   symbols_8h, jobs, threads, clock, last_execution,
                   categorized, last_cat, stop_signalled>>
    /\ UNCHANGED <<auxVars, fetchVars, classVars>>

\* sorted(runnable_jobs): the due jobs ordered by next_run, ties in list order
RECURSIVE InsertByTime(_, _)
InsertByTime(j, sorted) ==
    IF sorted = <<>> THEN <<j>>
    ELSE IF j.at < Head(sorted).at THEN <<j>> \o sorted
    ELSE <<Head(sorted)>> \o InsertByTime(j, Tail(sorted))
RECURSIVE SortByTime(_)
SortByTime(js) ==
    IF js = <<>> THEN <<>>
    ELSE InsertByTime(js[Len(js)], SortByTime(SubSeq(js, 1, Len(js) - 1)))
RunnableJobs == SortByTime(SelectSeq(jobs, LAMBDA j : j.pending))

\* a handler is entered; `if not self.symbols_Xh: return` makes it a no-op
Enter(batch) ==
    [pc |-> "handler", batch |-> batch,
     working |-> Bucket(Head(batch).cadence) # <<>>]

\* one pass of `while self.is_running:` after time.sleep(30) (or at thread
\* start): leave the loop when the flag is down, else schedule.run_pending()
\* collects the due jobs and enters the first handler
LoopPoll(t) ==
    /\ threads[t].pc = "poll"
    /\ IF ~is_running
       THEN threads' = [threads EXCEPT ![t].pc = "dead"]
       ELSE IF RunnableJobs = <<>>
            THEN threads' = threads
            ELSE threads' = [threads EXCEPT ![t] = Enter(RunnableJobs)]
    /\ UNCHANGED <<is_running, scheduler_thread, symbols_1h, symbols_4h,
                   symbols_8h, jobs, clock, ctl, last_execution, categorized,
                   last_cat, stop_signalled>>
    /\ UNCHANGED <<auxVars, fetchVars, classVars>>

\* the running handler returns (ok: its try block completed, so an
\* extraction handler stamps last_Xh_execution); Job.run reschedules the job
\* for the next day; run_pending goes on with the next collected job, and
\* after the last one the loop sleeps
HandlerReturns(t, ok) ==
    /\ threads[t].pc = "handler"
    /\ LET job == Head(threads[t].batch)
           rest == Tail(threads[t].batch)
       IN /\ jobs' = [i \in DOMAIN jobs |->
                        IF jobs[i].id = job.id
                        THEN [jobs[i] EXCEPT !.pending = FALSE]
                        ELSE jobs[i]]
          /\ last_execution' =
                IF threads[t].working /\ ok /\ job.kind = "extract"
                THEN [last_execution EXCEPT ![job.cadence] = clock]
                ELSE last_execution
          /\ threads' = [threads EXCEPT ![t] =
                IF rest = <<>>
                THEN [pc |-> "poll", batch |-> <<>>, working |-> FALSE]
                ELSE Enter(rest)]
    /\ UNCHANGED <<is_running, scheduler_thread, symbols_1h, symbols_4h,
                   symbols_8h, clock, ctl, categorized, last_cat, stop_signalled>>
    /\ UNCHANGED <<auxVars, fetchVars, classVars>>

\* ---- ExtractFundingRateRealtime, which registers its jobs with the same
\* ---- default scheduler of the `schedule` module
\* __init__: not running, no symbols, both buckets empty
InitRealtime ==
    realtime = [is_running |-> FALSE, calls |-> 0, symbols |-> <<>>,
                symbols_4h |-> <<>>, symbols_8h |-> <<>>]

\* one item of the premiumIndex snapshot the extractor reads, per symbol:
\* whether the symbol is listed, whether its next settlement is at most four
\* hours away, and whether int() of its nextFundingTime raises
RtEntries ==
    {[listed |-> FALSE, near |-> FALSE, malformed |-> FALSE],
     [listed |-> TRUE, near |-> TRUE, malformed |-> FALSE],
     [listed |-> TRUE, near |-> FALSE, malformed |-> FALSE],
     [listed |-> TRUE, near |-> FALSE, malformed |-> TRUE]}
RtNoData == [s \in SymSet |-> [listed |-> FALSE, near |-> FALSE,
                               malformed |-> FALSE]]
RtSnapshots ==
    {[status |-> "ok", data |-> d] : d \in [SymSet -> RtEntries]}
    \cup {[status |-> st, data |-> RtNoData] : st \in SnapStatus \ {"ok"}}
\* the request for the funding info failed
RtFailedSnapshot == [status |-> "http_error", data |-> RtNoData]

\* the loop `for symbol in self.symbols` of the categorization: a listed
\* symbol with time_to_next <= 4 is appended to symbols_4h, any other symbol
\* to symbols_8h
RECURSIVE AppendBuckets(_, _, _, _)
AppendBuckets(symbols, data, s4h, s8h) ==
    IF symbols = <<>> THEN [s4h |-> s4h, s8h |-> s8h]
    ELSE LET s == Head(symbols)
         IN IF data[s].listed /\ data[s].near
            THEN AppendBuckets(Tail(symbols), data, Append(s4h, s), s8h)
            ELSE AppendBuckets(Tail(symbols), data, s4h, Append(s8h, s))

\* _categorize_symbols_by_funding_frequency: a status other than 200, a
\* failed request and a malformed item (which raises while the items are
\* read, before the loop over the symbols) set symbols_8h to a copy of the
\* symbols and leave symbols_4h as it was
CategorizeByFundingFrequency(symbols, snap, s4h, s8h) ==
    IF \/ snap.status # "ok"
       \/ \E s \in Range(symbols) :
              snap.data[s].listed /\ snap.data[s].malformed
    THEN [s4h |-> s4h, s8h |-> symbols]
    ELSE AppendBuckets(symbols, snap.data, s4h, s8h)

\* the jobs of the realtime extractor carry kind "update" and epoch 0
\* _setup_schedules: three 8h jobs and six 4h jobs, whatever the buckets
SetupSchedules(js) ==
    AddJobs(AddJobs(js, Hours8h, 0, "update", "8h", 0),
            Hours4h, 0, "update", "4h", 0)

\* the triggers an instance registered, as the default scheduler holds them
SchedulerJobs(js) == SelectSeq(js, LAMBDA j : j.kind # "update")
RealtimeJobs(js) == SelectSeq(js, LAMBDA j : j.kind = "update")

\* start_realtime_extraction(symbols): early returns when running and for
\* an empty list; otherwise the symbols are stored, the flag is raised, the
\* symbols are categorized on the snapshot and the jobs are registered
StartRealtime(symbols, snap) ==
    /\ realtime.calls < MaxCalls
    /\ IF realtime.is_running \/ symbols = <<>>
       THEN /\ realtime' = [realtime EXCEPT !.calls = @ + 1]
            /\ UNCHANGED jobs
       ELSE /\ \E c \in {CategorizeByFundingFrequency(symbols, snap,
                              realtime.symbols_4h, realtime.symbols_8h)} :
                   realtime' = [is_running |-> TRUE,
                                calls |-> realtime.calls + 1,
                                symbols |-> symbols,
                                symbols_4h |-> c.s4h,
                                symbols_8h |-> c.s8h]
            /\ jobs' = SetupSchedules(jobs)
    /\ UNCHANGED <<is_running, scheduler_thread, symbols_1h, symbols_4h,
                   symbols_8h, threads, clock, ctl, last_execution, categorized,
                   last_cat, stop_signalled>>
    /\ UNCHANGED <<histVars, runVars, verifyVars, fillVars, fetchVars, classVars>>

\* stop_realtime_extraction: the flag goes down and schedule.clear() empties
\* the default scheduler
StopRealtime ==
    /\ realtime.calls < MaxCalls
    /\ IF ~realtime.is_running
       THEN /\ realtime' = [realtime EXCEPT !.calls = @ + 1]
            /\ UNCHANGED jobs
       ELSE /\ realtime' = [realtime EXCEPT !.is_running = FALSE,
                                            !.calls = @ + 1]
            /\ jobs' = <<>>
    /\ UNCHANGED <<is_running, scheduler_thread, symbols_1h, symbols_4h,
                   symbols_8h, threads, clock, ctl, last_execution, categorized,
                   last_cat, stop_signalled>>
    /\ UNCHANGED <<histVars, runVars, verifyVars, fillVars, fetchVars, classVars>>

\* time.sleep(30) after a pass, time.sleep(60) in the except branch
LoopSleep == 30
BackoffSleep == 60
SleepOf(pc) ==
    IF pc = "backoff" THEN BackoffSleep
    ELSE IF pc = "poll" THEN LoopSleep
    ELSE 0

\* _run_scheduler without the try/except around the pass: the exception ends
\* the thread
TickRaises_Uncaught(t) ==
    /\ threads[t].pc = "handler"
    /\ threads' = [threads EXCEPT ![t] =
                      [pc |-> "dead", batch |-> <<>>, working |-> FALSE]]
    /\ UNCHANGED <<is_running, scheduler_thread, symbols_1h, symbols_4h,
                   symbols_8h, jobs, clock, ctl, last_execution, categorized,
                   last_cat, stop_signalled>>
    /\ UNCHANGED <<auxVars, fetchVars, classVars>>

\* an exception leaves schedule.run_pending(): the job that raised is not
\* rescheduled (Job.run stops before _schedule_next_run), the rest of the
\* collected jobs is dropped, the except branch logs and sleeps 60 seconds
TickRaises(t) ==
    /\ threads[t].pc = "handler"
    /\ threads' = [threads EXCEPT ![t] =
                      [pc |-> "backoff", batch |-> <<>>, working |-> FALSE]]
    /\ UNCHANGED <<is_running, scheduler_thread, symbols_1h, symbols_4h,
                   symbols_8h, jobs, clock, ctl, last_execution, categorized,
                   last_cat, stop_signalled>>
    /\ UNCHANGED <<auxVars, fetchVars, classVars>>

\* time.sleep(60) returns: back to the loop condition
BackoffDone(t) ==
    /\ threads[t].pc = "backoff"
    /\ threads' = [threads EXCEPT ![t].pc = "poll"]
    /\ UNCHANGED <<is_running, scheduler_thread, symbols_1h, symbols_4h,
                   symbols_8h, jobs, clock, ctl, last_execution, categorized,
                   last_cat, stop_signalled>>
    /\ UNCHANGED <<auxVars, fetchVars, classVars>>

\* the wall clock reaches the next trigger instant: the jobs registered for
\* that time of day become due
WallClockTick ==
    /\ clock < MaxTicks
    /\ clock' = clock + 1
    /\ jobs' = [i \in DOMAIN jobs |->
                  IF jobs[i].at = SlotTime(clock + 1)
                  THEN [jobs[i] EXCEPT !.pending = TRUE]
                  ELSE jobs[i]]
    /\ UNCHANGED <<is_running, scheduler_thread, symbols_1h, symbols_4h,
                   symbols_8h, threads, ctl, last_execution, categorized,
                   last_cat, stop_signalled>>
    /\ UNCHANGED <<auxVars, fetchVars, classVars>>

(***************************************************************************)
(* ExtractFundingRateHistory: start-time discovery for one instrument.     *)
(* Instants are seconds after 2017-01-01 00:00 (the code's millisecond     *)
(* timestamps, shifted and divided by 1000); because the earliest instant  *)
(* is 0 here and None is distinct from every instant in the code, optional *)
(* instants carry an explicit flag.                                        *)
(***************************************************************************)
\* the instrument whose history is extracted
HistSymbol == "A"
Day == 86400
\* datetime(2017, 1, 1)
EarliestPossible == 0
\* test_periods: 2017-01-01, 2019-09-01, 2020/2021/2022/2023-01-01
TestPeriods == <<0, 973 * Day, 1095 * Day, 1461 * Day, 1826 * Day, 2191 * Day>>
\* datetime(2019, 9, 1), the fallback
DefaultStartTime == 973 * Day
\* 30 * 24 * 60 * 60 * 1000 ms
SearchThreshold == 30 * Day
\* max_searches
MaxSearches == 10
\* get_current_timestamp(): 2025-01-01, later than every test period
CurrentTime == 2922 * Day

None == [some |-> FALSE, val |-> 0]
Some(v) == [some |-> TRUE, val |-> v]

\* what the exchange holds: nothing, records from the listing day up to now,
\* or records from the listing day up to the day the instrument was delisted
NoRecords == [has_data |-> FALSE, first |-> 0, last |-> 0]
Instruments ==
    {NoRecords,
     [has_data |-> TRUE, first |-> 980 * Day, last |-> CurrentTime],
     [has_data |-> TRUE, first |-> 1200 * Day, last |-> 1600 * Day]}

\* outcome of one GET /fapi/v1/fundingRate
FetchOutcomes == {"ok", "forbidden", "rate_limited", "network_error"}

\* get_funding_rate_history(symbol, start_time, limit) returns a non-empty
\* list: the answer is 200 and a record at or after start_time exists;
\* every error is answered with []
HasData(start_time, outcome) ==
    /\ outcome = "ok"
    /\ instrument.has_data
    /\ start_time <= instrument.last

\* time.sleep(5) after a 429
RateLimitSleep == 5

\* get_funding_rate_history(symbol, start_time, limit): one call of
\* _rate_limited_request, which sends one GET; a 429 sleeps 5 seconds; every
\* except branch returns []
GetFundingRateHistory_RetryOn429(start_time, outcome) ==
    [outcome |-> outcome,
     data |-> (outcome \in {"ok", "rate_limited"} /\ instrument.has_data
               /\ start_time <= instrument.last),
     requests |-> IF outcome = "rate_limited" THEN 2 ELSE 1,
     slept |-> IF outcome = "rate_limited" THEN RateLimitSleep ELSE 0]

GetFundingRateHistory(start_time, outcome) ==
    [outcome |-> outcome,
     data |-> HasData(start_time, outcome),
     requests |-> 1,
     slept |-> IF outcome = "rate_limited" THEN RateLimitSleep ELSE 0]

NoFetch == [outcome |-> "none", data |-> FALSE, requests |-> 0, slept |-> 0]

\* the except branch for HTTPError 403 adds the symbol to the blacklist
BlacklistAfter(outcome) ==
    IF outcome = "forbidden"
    THEN blacklisted_symbols \cup {HistSymbol}
    ELSE blacklisted_symbols

IdleDisc ==
    [pc |-> "idle", idx |-> 1, left |-> 0, right |-> 0, found_start |-> None,
     earliest_with_data |-> None, search_count |-> 0, requests |-> 0,
     with_data |-> {}, first_data |-> FALSE]

\* history of the discovery that made the latest return: the ends of the
\* search interval and the number of search probes when it ended, the test
\* period that had data, whether the probe at the first test period
\* returned records, and the number of test periods probed
NoFinal ==
    [left |-> 0, right |-> 0, search_count |-> 0, coarse |-> None,
     first_data |-> FALSE, anchors |-> 0]

FinalOf(d, left, right, search_count) ==
    [left |-> left, right |-> right, search_count |-> search_count,
     coarse |-> d.earliest_with_data, first_data |-> d.first_data,
     anchors |-> d.idx]

NoLog ==
    [calls |-> 0, first |-> None, last |-> None, last_requests |-> 0,
     after_forbidden |-> FALSE, fetch |-> NoFetch, found |-> FALSE,
     witnessed |-> FALSE, final |-> NoFinal, fallback_call |-> 0]

\* __init__ and _load_start_times_cache: the entry may come from the file
InitHistory ==
    /\ instrument = NoRecords
    /\ symbol_start_times = None
    /\ start_times_file = None
    /\ blacklisted_symbols = {}
    /\ disc = IdleDisc
    /\ hlog = NoLog

CachedStarts == {None, Some(EarliestPossible), Some(DefaultStartTime)}

InitDiscovery ==
    /\ instrument \in Instruments
    /\ symbol_start_times \in CachedStarts
    /\ start_times_file = symbol_start_times
    /\ blacklisted_symbols = {}
    /\ disc = IdleDisc
    /\ hlog = NoLog

\* history: a call returned value t after issuing `requests` requests
LogReturn(log, t, requests) ==
    [log EXCEPT !.calls = @ + 1,
                !.first = IF @.some THEN @ ELSE Some(t),
                !.last = Some(t),
                !.last_requests = requests,
                !.found = FALSE,
                !.witnessed = FALSE,
                !.final = NoFinal]

\* history: get_funding_rate_history is called for HistSymbol and returns f
LogRequest(log, f) ==
    [log EXCEPT !.after_forbidden = @ \/ HistSymbol \in blacklisted_symbols,
                !.fetch = f]

\* the end of _find_symbol_start_time: the default when nothing was found,
\* the cache entry is written and saved, the value is returned
\* (history: found tells that a start was found, witnessed that a probe
\* starting at the returned instant returned records during this discovery,
\* final how the discovery ended, fallback_call the call that first fell
\* back to the default)
Finish_FallbackNotCached(found_start, with_data, requests, log, final) ==
    LET t == IF found_start.some THEN found_start.val ELSE DefaultStartTime
    IN /\ symbol_start_times' = IF found_start.some THEN Some(t)
                                ELSE symbol_start_times
       /\ start_times_file' = symbol_start_times'
       /\ disc' = IdleDisc
       /\ hlog' = [LogReturn(log, t, requests)
                      EXCEPT !.found = found_start.some,
                             !.witnessed = t \in with_data,
                             !.final = final,
                             !.fallback_call =
                                 IF ~found_start.some /\ @ = 0
                                 THEN log.calls + 1 ELSE @]

Finish(found_start, with_data, requests, log, final) ==
    LET t == IF found_start.some THEN found_start.val ELSE DefaultStartTime
    IN /\ symbol_start_times' = Some(t)
       /\ start_times_file' = Some(t)
       /\ disc' = IdleDisc
       /\ hlog' = [LogReturn(log, t, requests)
                      EXCEPT !.found = found_start.some,
                             !.witnessed = t \in with_data,
                             !.final = final,
                             !.fallback_call =
                                 IF ~found_start.some /\ @ = 0
                                 THEN log.calls + 1 ELSE @]

\* the test periods that are not in the future
Probed == SelectSeq(TestPeriods, LAMBDA t : t <= CurrentTime)

\* _find_symbol_start_time without the cache check
FindSymbolStartTime_NoCacheCheck ==
    /\ disc.pc = "idle"
    /\ hlog.calls < MaxDiscoveries
    /\ IF Probed = <<>>
       THEN /\ Finish(None, {}, 0, hlog, NoFinal)
       ELSE /\ disc' = [IdleDisc EXCEPT !.pc = "anchors",
                                        !.left = EarliestPossible,
                                        !.right = CurrentTime]
            /\ UNCHANGED <<symbol_start_times, start_times_file, hlog>>
    /\ UNCHANGED <<instrument, blacklisted_symbols>>
    /\ UNCHANGED <<coreVars, notHistVars>>

\* _find_symbol_start_time is called: the cached value is returned, or the
\* discovery begins
FindSymbolStartTime ==
    /\ disc.pc = "idle"
    /\ hlog.calls < MaxDiscoveries
    /\ IF symbol_start_times.some
       THEN /\ hlog' = LogReturn(hlog, symbol_start_times.val, 0)
            /\ UNCHANGED <<symbol_start_times, start_times_file, disc>>
       ELSE IF Probed = <<>>
       THEN /\ Finish(None, {}, 0, hlog, NoFinal)
       ELSE /\ disc' = [IdleDisc EXCEPT !.pc = "anchors",
                                        !.left = EarliestPossible,
                                        !.right = CurrentTime]
            /\ UNCHANGED <<symbol_start_times, start_times_file, hlog>>
    /\ UNCHANGED <<instrument, blacklisted_symbols>>
    /\ UNCHANGED <<coreVars, notHistVars>>

\* if (right - left) > (30 * 24 * 60 * 60 * 1000)
SearchDue_Always(left, right) == TRUE

SearchDue(left, right) == (right - left) > SearchThreshold

\* one iteration of the loop over test_periods: a probe with limit=10; the
\* first period with data ends the loop, then the binary search starts when
\* the period is more than 30 days after the earliest possible instant
ProbeAnchor(outcome) ==
    /\ disc.pc = "anchors"
    /\ LET test_timestamp == Probed[disc.idx]
           f == GetFundingRateHistory(test_timestamp, outcome)
           test_data == f.data
           requests == disc.requests + f.requests
           first_data == IF disc.idx = 1 THEN test_data ELSE disc.first_data
           log == LogRequest(hlog, f)
       IN /\ blacklisted_symbols' = BlacklistAfter(outcome)
          /\ IF ~test_data /\ disc.idx < Len(Probed)
             THEN /\ disc' = [disc EXCEPT !.idx = @ + 1, !.requests = requests,
                                          !.first_data = first_data]
                  /\ hlog' = log
                  /\ UNCHANGED <<symbol_start_times, start_times_file>>
             ELSE IF test_data
                     /\ SearchDue(EarliestPossible, test_timestamp)
             THEN /\ disc' = [disc EXCEPT !.pc = "search",
                                          !.left = EarliestPossible,
                                          !.right = test_timestamp,
                                          !.earliest_with_data = Some(test_timestamp),
                                          !.search_count = 0,
                                          !.requests = requests,
                                          !.with_data = {test_timestamp},
                                          !.first_data = first_data]
                  /\ hlog' = log
                  /\ UNCHANGED <<symbol_start_times, start_times_file>>
             ELSE Finish(IF test_data THEN Some(test_timestamp) ELSE None,
                         IF test_data THEN {test_timestamp} ELSE {},
                         requests, log,
                         [NoFinal EXCEPT
                          !.left = EarliestPossible,
                          !.right = IF test_data THEN test_timestamp
                                    ELSE CurrentTime,
                          !.coarse = IF test_data THEN Some(test_timestamp)
                                     ELSE None,
                          !.first_data = first_data,
                          !.anchors = disc.idx])
    /\ UNCHANGED instrument
    /\ UNCHANGED <<coreVars, notHistVars>>

\* the body of the binary search after the probe at mid: records move the
\* right end to mid and make mid the found start, no records move the left
\* end past mid
SearchStep_FoundWithoutData(d, mid, mid_data) ==
    [left |-> IF mid_data THEN d.left ELSE mid + 1,
     right |-> IF mid_data THEN mid ELSE d.right,
     found_start |-> Some(mid)]

SearchStep(d, mid, mid_data) ==
    [left |-> IF mid_data THEN d.left ELSE mid + 1,
     right |-> IF mid_data THEN mid ELSE d.right,
     found_start |-> IF mid_data THEN Some(mid) ELSE d.found_start]

\* while left < right and search_count < max_searches
SearchContinues_Uncapped(left, right, search_count) == left < right

SearchContinues(left, right, search_count) ==
    left < right /\ search_count < MaxSearches

\* one iteration of the binary search: a probe with limit=5 at mid; when the
\* loop condition fails, found_start or earliest_with_data is the result
ProbeSearch(outcome) ==
    /\ disc.pc = "search"
    /\ LET mid == (disc.left + disc.right) \div 2
           f == GetFundingRateHistory(mid, outcome)
           mid_data == f.data
           step == SearchStep(disc, mid, mid_data)
           left == step.left
           right == step.right
           found_start == step.found_start
           search_count == disc.search_count + 1
           requests == disc.requests + f.requests
           with_data == IF mid_data THEN disc.with_data \cup {mid}
                        ELSE disc.with_data
           log == LogRequest(hlog, f)
       IN /\ blacklisted_symbols' = BlacklistAfter(outcome)
          /\ IF SearchContinues(left, right, search_count)
             THEN /\ disc' = [disc EXCEPT !.left = left, !.right = right,
                                          !.found_start = found_start,
                                          !.search_count = search_count,
                                          !.requests = requests,
                                          !.with_data = with_data]
                  /\ hlog' = log
                  /\ UNCHANGED <<symbol_start_times, start_times_file>>
             ELSE Finish(IF found_start.some THEN found_start
                         ELSE disc.earliest_with_data, with_data, requests,
                         log, FinalOf(disc, left, right, search_count))
    /\ UNCHANGED instrument
    /\ UNCHANGED <<coreVars, notHistVars>>

(***************************************************************************)
(* Batch extraction: AdvancedFundingRateScheduler._extract_funding_data,   *)
(* the reporting of the cadence handlers, and the update call of           *)
(* ExtractFundingRateRealtime.  Instruments are numbered 1..n.             *)
(***************************************************************************)
\* batch_size = 50 if interval == "1h" else 20
BatchSize(interval) == IF interval = "1h" THEN 50 ELSE 20
Min(a, b) == IF a < b THEN a ELSE b
\* symbols[i:i + batch_size]
BatchSymbols(symbols, i, batch_size) ==
    SubSeq(symbols, i + 1, Min(i + batch_size, Len(symbols)))
\* batch_num = (i // batch_size) + 1
BatchNum(i, batch_size) == (i \div batch_size) + 1
\* total_batches
TotalBatches(n, batch_size) == (n + batch_size - 1) \div batch_size

\* the loop over the batches; `raising` are the batch numbers whose update
\* call raises an exception
RECURSIVE BatchLoop(_, _, _, _, _, _)
BatchLoop(symbols, batch_size, i, raising, successful, failed) ==
    IF i >= Len(symbols)
    THEN [successful_symbols |-> successful, failed_symbols |-> failed]
    ELSE LET batch_symbols == BatchSymbols(symbols, i, batch_size)
         IN IF BatchNum(i, batch_size) \in raising
            THEN BatchLoop(symbols, batch_size, i + batch_size, raising,
                           successful, failed \o batch_symbols)
            ELSE BatchLoop(symbols, batch_size, i + batch_size, raising,
                           successful \o batch_symbols, failed)

\* _extract_funding_data whose except branch forgets the batch
ExtractFundingData_FailedNotRecorded(symbols, interval, raising) ==
    LET r == BatchLoop(symbols, BatchSize(interval), 0, raising, <<>>, <<>>)
    IN [success_count |-> Len(r.successful_symbols),
        total_count |-> Len(symbols),
        failed_symbols |-> <<>>,
        successful_symbols |-> r.successful_symbols]

\* _extract_funding_data(symbols, interval)
ExtractFundingData(symbols, interval, raising) ==
    LET r == BatchLoop(symbols, BatchSize(interval), 0, raising, <<>>, <<>>)
    IN [success_count |-> Len(r.successful_symbols),
        total_count |-> Len(symbols),
        failed_symbols |-> r.failed_symbols,
        successful_symbols |-> r.successful_symbols]

NoResult ==
    [success_count |-> 0, total_count |-> 0, failed_symbols |-> <<>>,
     successful_symbols |-> <<>>]

\* the bucket of n instruments
Bucketful(n) == [k \in 1..n |-> k]

\* ---- the runner as a function of its inputs ----
IdleRunner ==
    [pc |-> "idle", interval |-> "8h", n |-> 0, raising |-> {},
     result |-> NoResult]
InitRunnerIdle == runner = IdleRunner

\* any cadence, any bucket of up to MaxBatches full batches, any set of
\* batches whose update call raises
InitRunner ==
    \E interval \in Cadences :
        \E n \in 0..(MaxBatches * BatchSize(interval)) :
            \E raising \in SUBSET (1..MaxBatches) :
                runner = [pc |-> "called", interval |-> interval, n |-> n,
                          raising |-> raising, result |-> NoResult]

RunExtraction ==
    /\ runner.pc = "called"
    /\ runner' = [runner EXCEPT
                     !.pc = "returned",
                     !.result = ExtractFundingData(Bucketful(runner.n),
                                                   runner.interval,
                                                   runner.raising)]
    /\ UNCHANGED <<handler_run, report>>
    /\ UNCHANGED <<coreVars, notRunVars>>

\* ---- the reporting of the cadence handlers ----
\* the 1h condition with <= in place of <
Below90_Inclusive(success_count, n) == success_count * 10 <= n * 9

\* result["success_count"] < len(self.symbols_1h) * 0.9; for the bucket
\* sizes of the model n * 0.9 is computed without a rounding error that
\* crosses an integer, so the comparison is the one on integers
Below90(success_count, n) == success_count * 10 < n * 9

\* every handler reporting under the 1h condition
ForwardsResult_AllThresholded(interval, success_count, n) ==
    Below90(success_count, n)

\* whether the handler of the cadence calls send_funding_update_result
ForwardsResult(interval, success_count, n) ==
    IF interval = "1h" THEN Below90(success_count, n) ELSE TRUE

\* send_funding_update_result: the level, and whether a message goes out
ResultLevel(success_count, total_count) ==
    IF success_count = total_count THEN "SUCCESS"
    ELSE IF success_count > 0 THEN "WARNING"
    ELSE "ERROR"
GatewaySends(success_count, total_count) ==
    \/ ResultLevel(success_count, total_count) \in {"WARNING", "ERROR"}
    \/ total_count > 50

IdleReport ==
    [pc |-> "idle", interval |-> "8h", n |-> 0, success_count |-> 0,
     forwarded |-> FALSE, delivered |-> FALSE]
InitReportIdle == report = IdleReport

\* any cadence, any bucket size, any count of successful instruments
InitReport ==
    \E interval \in Cadences :
        \E n \in 1..MaxBucket :
            \E success_count \in 0..n :
                report = [pc |-> "extracted", interval |-> interval, n |-> n,
                          success_count |-> success_count,
                          forwarded |-> FALSE, delivered |-> FALSE]

\* the handler's step after _extract_funding_data returned
ReportResult ==
    /\ report.pc = "extracted"
    /\ LET forwarded == ForwardsResult(report.interval, report.success_count,
                                       report.n)
       IN report' = [report EXCEPT
                        !.pc = "done",
                        !.forwarded = forwarded,
                        !.delivered = forwarded /\ GatewaySends(report.success_count,
                                                                report.n)]
    /\ UNCHANGED <<runner, handler_run>>
    /\ UNCHANGED <<coreVars, notRunVars>>

\* ---- a cadence handler with the extractor's update call ----
\* what happens inside _fetch_and_update_funding_rates
UpdateOutcomes ==
    {"updated", "http_error", "exception", "no_data", "persist_failed"}
\* the request or the persistence failed
FailedOutcomes == {"http_error", "exception", "persist_failed"}
\* the whole body is inside try/except Exception: the call returns normally
\* whatever happened
FetchAndUpdateFundingRates(outcome) ==
    [raised |-> FALSE, persisted |-> outcome = "updated"]

\* bucket sizes of a handler execution: empty, one instrument, a full batch,
\* a batch and one more, MaxHandlerBatches full batches
HandlerSizes(interval) ==
    {0, 1, BatchSize(interval), BatchSize(interval) + 1,
     MaxHandlerBatches * BatchSize(interval)}

\* what happens to one message handed to the gateway: delivered, dropped by
\* its rate limit, failed in transport, or an exception inside the gateway
SendOutcomes == {"delivered", "throttled", "failed", "exception"}

\* send_message lets every exception out
SendMessage_Propagates(outcome) ==
    [raised |-> outcome = "exception", sent |-> outcome = "delivered"]

\* UtilTeleBotCheck.send_message and the senders built on it: every
\* exception is caught and answered with False
SendMessage(outcome) ==
    [raised |-> FALSE, sent |-> outcome = "delivered"]

\* a start notification on every run
StartDue_EveryRun(interval, hour) == TRUE

\* whether the handler calls send_funding_cycle_start: the 1h handler only
\* when current_hour % 4 == 0
StartDue(interval, hour) ==
    interval # "1h" \/ hour % 4 = 0

\* whether the except branch of the handler calls send_alert
ErrorAlertDue(interval, hour) ==
    interval # "1h" \/ hour % 6 = 0

\* hours of the day at which the handler of a cadence is triggered
TriggerHours(interval) ==
    IF interval = "1h" THEN {3, 4}
    ELSE IF interval = "4h" THEN {4}
    ELSE {8}

\* 08:00, an hour at which every cadence is triggered
CommonHour == 8

NoStamps == [c \in Cadences |-> 0]

\* the last handler execution: its inputs, the steps it took in order, its
\* result, and last_Xh_execution per cadence (0: None, else the number of
\* the run that stamped it) before and after the execution
NoRun ==
    [runs |-> 0, interval |-> "8h", n |-> 0, outcomes |-> <<>>,
     result |-> NoResult, completed |-> FALSE, forwarded |-> FALSE,
     hour |-> 0, send_start |-> "delivered", send_result |-> "delivered",
     events |-> <<>>, error_alert |-> FALSE,
     stamp_before |-> NoStamps, stamp |-> NoStamps]
InitHandler == handler_run = NoRun

\* _execute_1h_monitoring / _execute_4h_funding / _execute_8h_funding at the
\* given hour, with the fate of the start and of the result notification
ExecuteHandler(interval, n, outcomes, hour, send_start, send_result) ==
    /\ handler_run.runs < MaxRuns
    /\ LET run == handler_run.runs + 1
           base == [NoRun EXCEPT !.runs = run, !.interval = interval,
                                 !.hour = hour, !.send_start = send_start,
                                 !.send_result = send_result,
                                 !.stamp_before = handler_run.stamp,
                                 !.stamp = handler_run.stamp]
           start_due == StartDue(interval, hour)
           start_raised == start_due /\ SendMessage(send_start).raised
           start_events == IF start_due THEN <<"CycleStart">> ELSE <<>>
           raising == {b \in DOMAIN outcomes :
                          FetchAndUpdateFundingRates(outcomes[b]).raised}
           result == ExtractFundingData(Bucketful(n), interval, raising)
           forwarded == ForwardsResult(interval, result.success_count, n)
           result_raised == forwarded /\ SendMessage(send_result).raised
           result_events == IF forwarded THEN <<"CycleResult">> ELSE <<>>
       IN IF n = 0
          THEN \* `if not self.symbols_Xh: return`
               handler_run' = base
          ELSE IF start_raised
          THEN \* except branch before the extraction
               handler_run' =
                   [base EXCEPT !.n = n, !.outcomes = outcomes,
                                !.events = start_events,
                                !.error_alert = ErrorAlertDue(interval, hour)]
          ELSE IF result_raised
          THEN \* except branch after the extraction
               handler_run' =
                   [base EXCEPT !.n = n, !.outcomes = outcomes,
                                !.result = result,
                                !.forwarded = forwarded,
                                !.events = start_events \o <<"Extract">>
                                               \o result_events,
                                !.error_alert = ErrorAlertDue(interval, hour)]
          ELSE handler_run' =
                   [base EXCEPT !.n = n, !.outcomes = outcomes,
                                !.result = result,
                                !.completed = TRUE,
                                !.forwarded = forwarded,
                                !.events = start_events \o <<"Extract">>
                                               \o result_events \o <<"Stamp">>,
                                !.stamp = [handler_run.stamp
                                              EXCEPT ![interval] = run]]
    /\ UNCHANGED <<runner, report>>
    /\ UNCHANGED <<coreVars, notRunVars>>

(***************************************************************************)
(* Verification: LoadMongo.verify_recent_funding_data and                  *)
(* AdvancedFundingRateScheduler._verify_funding_data.  The instruments of  *)
(* the bucket are grouped by their latest record: one minute old, exactly  *)
(* max_age old, ten hours old, or no record; the store keeps how many      *)
(* instruments each group has.  Instants are milliseconds; `frac` tells    *)
(* whether the current time has a part below the millisecond.              *)
(***************************************************************************)
Groups == {"fresh", "edge", "old", "none"}
\* datetime.now() in ms, later than every record
NowMs == 40000000
\* self.max_data_age_1h / _4h / _8h, in seconds
MaxDataAge(interval) ==
    IF interval = "1h" THEN 3900
    ELSE IF interval = "4h" THEN 14700
    ELSE 29100
\* age in ms of the latest record of the instruments of a group
AgeOf(g, max_age_seconds) ==
    IF g = "fresh" THEN 60000
    ELSE IF g = "edge" THEN max_age_seconds * 1000
    ELSE 36000000

GroupSum(f) == f["fresh"] + f["edge"] + f["old"] + f["none"]

\* verify_recent_funding_data(collection, symbols, max_age_seconds): per
\* group, how many instruments are in missing_symbols and in stale_symbols
VerifyRecentFundingData(st, max_age_seconds) ==
    IF st.fails
    THEN \* except branch: everything missing, rate 0
         [total_symbols |-> GroupSum(st.count), verified_symbols |-> 0,
          missing_symbols |-> st.count,
          stale_symbols |-> [g \in Groups |-> 0],
          rate_num |-> 0, rate_den |-> 1, error |-> TRUE, raised |-> FALSE]
    ELSE
    LET cutoff_timestamp == NowMs - max_age_seconds * 1000
        last_update_time(g) == NowMs - AgeOf(g, max_age_seconds)
        \* $match: a record with last_update_time >= cutoff_timestamp
        recent(g) == g # "none" /\ last_update_time(g) >= cutoff_timestamp
        \* latest_update < cutoff_time, among the matched records
        stale(g) ==
            /\ recent(g)
            /\ \/ last_update_time(g) < cutoff_timestamp
               \/ last_update_time(g) = cutoff_timestamp /\ st.frac > 0
        verified == GroupSum([g \in Groups |-> IF recent(g) THEN st.count[g] ELSE 0])
        total == GroupSum(st.count)
    IN [total_symbols |-> total, verified_symbols |-> verified,
        missing_symbols |-> [g \in Groups |-> IF recent(g) THEN 0 ELSE st.count[g]],
        stale_symbols |-> [g \in Groups |-> IF stale(g) THEN st.count[g] ELSE 0],
        rate_num |-> IF total > 0 THEN verified ELSE 0,
        rate_den |-> IF total > 0 THEN total ELSE 1,
        error |-> FALSE, raised |-> FALSE]

\* alert_threshold in percent, alert_count_threshold
AlertThreshold(interval) == IF interval = "1h" THEN 85 ELSE 95
AlertCountThreshold(interval) == IF interval = "1h" THEN 20 ELSE 5

\* the alert decision looking at the success rate only
AlertDue_RateOnly(interval, result) ==
    LET problematic == GroupSum(result.missing_symbols)
                       + GroupSum(result.stale_symbols)
    IN /\ problematic > 0
       /\ result.rate_num * 100 < AlertThreshold(interval) * result.rate_den

\* if problematic_symbols: if success_rate < alert_threshold or
\* len(problematic_symbols) > alert_count_threshold
AlertDue(interval, result) ==
    LET problematic == GroupSum(result.missing_symbols)
                       + GroupSum(result.stale_symbols)
    IN /\ problematic > 0
       /\ \/ result.rate_num * 100 < AlertThreshold(interval) * result.rate_den
          \/ problematic > AlertCountThreshold(interval)

NoVerification ==
    [total_symbols |-> 0, verified_symbols |-> 0,
     missing_symbols |-> [g \in Groups |-> 0],
     stale_symbols |-> [g \in Groups |-> 0],
     rate_num |-> 0, rate_den |-> 1, error |-> FALSE, raised |-> FALSE]
IdleVerify ==
    [pc |-> "idle", interval |-> "8h", hour |-> 0, result |-> NoVerification,
     verification_alert |-> FALSE, error_alert |-> FALSE]
EmptyStore ==
    [count |-> [g \in Groups |-> 0], fails |-> FALSE, frac |-> 0]

InitVerifyIdle ==
    /\ store = EmptyStore
    /\ verify_run = IdleVerify

\* any store: up to MaxFresh instruments with a fresh record, up to
\* MaxMissing without a record, none or one with a record exactly max_age
\* old or ten hours old; the query works or fails
InitVerify ==
    /\ \E fresh \in 0..MaxFresh, none \in 0..MaxMissing, edge \in 0..1,
          old \in 0..1, fails \in BOOLEAN, frac \in 0..1 :
           store = [count |-> [g \in Groups |->
                                  IF g = "fresh" THEN fresh
                                  ELSE IF g = "edge" THEN edge
                                  ELSE IF g = "old" THEN old
                                  ELSE none],
                    fails |-> fails, frac |-> frac]
    /\ verify_run = IdleVerify

\* the hours of the day at which a verification runs, as far as they differ
VerifyHours == {5, 6}

\* _verify_1h_data / _verify_4h_data / _verify_8h_data with the bucket of
\* the store, at the given hour of the day
VerifyFundingData(interval, hour) ==
    /\ verify_run.pc = "idle"
    /\ IF GroupSum(store.count) = 0
       THEN \* empty bucket: the handler returns at once
            verify_run' = [IdleVerify EXCEPT !.pc = "skipped",
                                             !.interval = interval,
                                             !.hour = hour]
       ELSE LET result == VerifyRecentFundingData(store, MaxDataAge(interval))
            IN verify_run' =
                   [pc |-> "done", interval |-> interval, hour |-> hour,
                    result |-> result,
                    verification_alert |-> ~result.raised /\ AlertDue(interval, result),
                    error_alert |-> /\ result.raised
                                    /\ (interval # "1h" \/ hour % 6 = 0)]
    /\ UNCHANGED store
    /\ UNCHANGED <<coreVars, notVerifyVars>>

(***************************************************************************)
(* Specifications                                                          *)
(***************************************************************************)
(***************************************************************************)
(* ExtractFundingRateHistory._process_single_symbol, first-time branch:    *)
(* the forward walk over the history of HistSymbol in pages.  The exchange *)
(* holds one record per instrument.period from instrument.first to         *)
(* instrument.last, all settled before the current time, and answers a     *)
(* request with the oldest records at or after startTime.  One unit of     *)
(* time stands for the code's millisecond in cursor = latest + 1.  After   *)
(* the loop the collected records go to transform_and_save_data and the    *)
(* call returns.                                                           *)
(***************************************************************************)
\* limit=1000
PageLimit == 1000
\* max_chunks
MaxChunks == 200
\* settlements are 8 hours apart
SettlementPeriod == 8 * 3600

BackfillInstrument(first, period, count) ==
    [has_data |-> TRUE, first |-> first, period |-> period,
     last |-> first + (count - 1) * period]

\* histories of one record, of exactly one page, of one page and a record,
\* and of several pages
RecordCounts ==
    {1, PageLimit, PageLimit + 1, (MaxPages - 1) * PageLimit + 500}

\* a source that has a further full page after every page of the loop: one
\* record per unit of time, a page more than max_chunks pages
EndlessInstrument ==
    BackfillInstrument(980 * Day, 1, (MaxChunks + 1) * PageLimit)

BackfillInstruments ==
    {NoRecords, EndlessInstrument}
        \cup {BackfillInstrument(980 * Day, SettlementPeriod, n) :
                  n \in RecordCounts}

\* values _find_symbol_start_time returns
BackfillStarts == {EarliestPossible, DefaultStartTime, 1095 * Day}

RecordCount(inst) ==
    IF inst.has_data THEN (inst.last - inst.first) \div inst.period + 1
    ELSE 0

\* the number of records settled before instant t
RecordsBefore(inst, t) ==
    IF ~inst.has_data \/ t <= inst.first THEN 0
    ELSE (t - inst.first + inst.period - 1) \div inst.period

NoPage ==
    [outcome |-> "none", start |-> 0, count |-> 0, lo |-> 0, hi |-> 0]

\* get_funding_rate_history(symbol, start_time=current_start, limit): a start
\* in the future is replaced by the current time; the answer holds the first
\* `limit` records at or after the start, lo and hi are the least and the
\* greatest fundingTime in it; every failure is answered with []
GetFundingRatePage(start_time, limit, outcome) ==
    LET start == IF start_time > CurrentTime THEN CurrentTime ELSE start_time
        total == RecordCount(instrument)
        k0 == RecordsBefore(instrument, start)
        n == IF outcome = "ok" /\ k0 < total THEN Min(limit, total - k0) ELSE 0
    IN [outcome |-> outcome, start |-> start, count |-> n,
        lo |-> IF n = 0 THEN 0 ELSE instrument.first + k0 * instrument.period,
        hi |-> IF n = 0 THEN 0
               ELSE instrument.first + (k0 + n - 1) * instrument.period]

\* current_start = latest_timestamp + 1
NextStart_SameInstant(latest_timestamp) == latest_timestamp

NextStart(latest_timestamp) == latest_timestamp + 1

\* the three exits of `while True`, in the order the code tests them: `if not
\* chunk_data`, `if len(chunk_data) < 1000`, `if chunk_count >= max_chunks`
LoopStops_NoChunkLimit(len, chunk_count) ==
    IF len = 0 THEN "empty"
    ELSE IF len < PageLimit THEN "short"
    ELSE "none"

LoopStops(len, chunk_count) ==
    IF len = 0 THEN "empty"
    ELSE IF len < PageLimit THEN "short"
    ELSE IF chunk_count >= MaxChunks THEN "cap"
    ELSE "none"

\* what follows the loop: `if all_data:` the result of
\* transform_and_save_data, else True
ProcessResult_FailsWithoutData(all_data, saved) == all_data > 0 /\ saved

ProcessResult(all_data, saved) == all_data = 0 \/ saved

\* chunk_count, current_start and len(all_data) of the loop; history: the
\* latest page, the start of the request before it, the greatest fundingTime
\* returned before it, the exit the loop took, the number of full pages, the
\* records handed to transform_and_save_data, the records it stored and the
\* value the call returned
IdleBackfill ==
    [pc |-> "idle", current_start |-> 0, chunk_count |-> 0, all_data |-> 0,
     page |-> NoPage, prev_start |-> None, returned_max |-> None,
     stopped_by |-> "none", full_pages |-> 0, handed |-> 0, persisted |-> 0,
     result |-> FALSE]

InitBackfillIdle == backfill = IdleBackfill

InitBackfill ==
    /\ instrument \in BackfillInstruments
    /\ symbol_start_times = None
    /\ start_times_file = None
    /\ blacklisted_symbols = {}
    /\ disc = IdleDisc
    /\ hlog = NoLog
    /\ backfill = IdleBackfill

\* is_first_time: the discovered start becomes the first cursor
StartBackfill(actual_start_timestamp) ==
    /\ backfill.pc = "idle"
    /\ backfill' = [IdleBackfill EXCEPT !.pc = "paging",
                                        !.current_start = actual_start_timestamp]
    /\ UNCHANGED histVars
    /\ UNCHANGED <<coreVars, runVars, verifyVars, rtVars>>

\* one iteration of `while True`: a page is requested from current_start; an
\* empty page, a short page or the chunk limit ends the loop
FetchPage(outcome) ==
    /\ backfill.pc = "paging"
    /\ LET chunk_count == backfill.chunk_count + 1
           chunk_data == GetFundingRatePage(backfill.current_start, PageLimit,
                                            outcome)
           stops == LoopStops(chunk_data.count, chunk_count)
       IN /\ backfill' =
                 [backfill EXCEPT
                  !.stopped_by = stops,
                  !.full_pages = IF chunk_data.count >= PageLimit
                                 THEN @ + 1 ELSE @,
                  !.pc = IF stops # "none" THEN "done" ELSE "paging",
                  !.current_start = IF chunk_data.count = 0
                                    THEN backfill.current_start
                                    ELSE NextStart(chunk_data.hi),
                  !.chunk_count = chunk_count,
                  !.all_data = backfill.all_data + chunk_data.count,
                  !.page = chunk_data,
                  !.prev_start = IF backfill.chunk_count = 0 THEN None
                                 ELSE Some(backfill.page.start),
                  !.returned_max = IF backfill.all_data = 0 THEN None
                                   ELSE Some(backfill.page.hi)]
          /\ blacklisted_symbols' = BlacklistAfter(outcome)
    /\ UNCHANGED <<instrument, symbol_start_times, start_times_file, disc, hlog>>
    /\ UNCHANGED <<coreVars, runVars, verifyVars, rtVars>>

\* after the loop: `if all_data:` transform_and_save_data(all_data, symbol)
\* decides the result, `else: return True`
ReturnBackfill(saved) ==
    /\ backfill.pc = "done"
    /\ backfill.all_data = 0 => saved
    /\ backfill' =
           [backfill EXCEPT
            !.pc = "returned",
            !.handed = backfill.all_data,
            !.persisted = IF saved THEN backfill.all_data ELSE 0,
            !.result = ProcessResult(backfill.all_data, saved)]
    /\ UNCHANGED histVars
    /\ UNCHANGED <<coreVars, runVars, verifyVars, rtVars>>

InitRun ==
    /\ InitRunnerIdle
    /\ InitHandler
    /\ InitReportIdle
    /\ InitVerifyIdle
    /\ InitBackfillIdle
    /\ InitRealtime
InitCore == InitFetch /\ InitDetector /\ market = NoData /\ InitSched
Init == InitCore /\ InitHistory /\ InitRun
InitC == InitFetch /\ InitClassify /\ InitSched /\ InitHistory /\ InitRun
InitL == InitFetch /\ InitLog /\ InitSched /\ InitHistory /\ InitRun
InitH == InitCore /\ InitDiscovery /\ InitRun
InitR == InitCore /\ InitHistory /\ InitRunner /\ InitHandler /\ InitReportIdle
             /\ InitVerifyIdle /\ InitBackfillIdle /\ InitRealtime
InitP == InitCore /\ InitHistory /\ InitRunnerIdle /\ InitHandler /\ InitReport
             /\ InitVerifyIdle /\ InitBackfillIdle /\ InitRealtime
InitV == InitCore /\ InitHistory /\ InitRunnerIdle /\ InitHandler
             /\ InitReportIdle /\ InitVerify /\ InitBackfillIdle
             /\ InitRealtime
InitB == InitCore /\ InitBackfill /\ InitRunnerIdle /\ InitHandler
             /\ InitReportIdle /\ InitVerifyIdle /\ InitRealtime

NextFetch ==
    \/ \E c \in Callers : AcquireLock(c)
    \/ \E c \in Callers : SleepDone(c)
    \/ \E c \in Callers : IssueRequest(c)
    \/ \E c \in Callers : RequestReturns(c)
    \/ \E c \in Callers : RequestRaises(c)
    \/ TickClock

NextClassify ==
    \E symbols \in SymbolLists, force_update \in BOOLEAN, status \in SnapStatus :
        Detect(symbols, force_update, status)

NextSched ==
    \/ StartScheduler
    \/ StopScheduler
    \/ JoinReturns
    \/ \E t \in ThreadIds : LoopPoll(t)
    \/ \E t \in ThreadIds, ok \in BOOLEAN : HandlerReturns(t, ok)
    \/ WallClockTick

\* the scheduler with passes of the loop that fail
NextLoop ==
    \/ StartScheduler
    \/ StopScheduler
    \/ JoinReturns
    \/ \E t \in ThreadIds : LoopPoll(t)
    \/ \E t \in ThreadIds, ok \in BOOLEAN : HandlerReturns(t, ok)
    \/ \E t \in ThreadIds : TickRaises(t)
    \/ \E t \in ThreadIds : BackoffDone(t)
    \/ WallClockTick

\* two users of the default scheduler in one process: starts and stops
NextShared ==
    \/ StartScheduler
    \/ StopScheduler
    \/ JoinReturns
    \/ StartRealtime(Symbols, RtFailedSnapshot)
    \/ StopRealtime

\* the realtime extractor alone: starts on any list of symbols and any
\* snapshot, and stops
NextRealtime ==
    \/ \E symbols \in SymbolLists, snap \in RtSnapshots :
           StartRealtime(symbols, snap)
    \/ StopRealtime

\* starts that may fail to create the loop thread, and stops
NextLaunch ==
    \/ StartScheduler
    \/ StartSchedulerThreadFails
    \/ StopScheduler
    \/ JoinReturns

NextHistory ==
    \/ FindSymbolStartTime
    \/ \E outcome \in FetchOutcomes : ProbeAnchor(outcome)
    \/ \E outcome \in FetchOutcomes : ProbeSearch(outcome)

NextBackfill ==
    \/ \E start \in BackfillStarts : StartBackfill(start)
    \/ \E outcome \in FetchOutcomes : FetchPage(outcome)
    \/ \E saved \in BOOLEAN : ReturnBackfill(saved)

NextRunner == RunExtraction

NextReport == ReportResult

NextExtract ==
    \E interval \in Cadences :
        \E n \in HandlerSizes(interval) :
            \E outcomes \in [1..TotalBatches(n, BatchSize(interval)) -> UpdateOutcomes] :
                ExecuteHandler(interval, n, outcomes, CommonHour, "delivered",
                               "delivered")

\* handler executions at the trigger hours with every fate of the two
\* notifications; the update call has the same outcome in every batch
NextHandler ==
    \E interval \in Cadences, send_start \in SendOutcomes,
       send_result \in SendOutcomes, outcome \in {"updated", "exception"} :
        \E n \in HandlerSizes(interval), hour \in TriggerHours(interval) :
            ExecuteHandler(interval, n,
                           [b \in 1..TotalBatches(n, BatchSize(interval))
                              |-> outcome],
                           hour, send_start, send_result)

NextVerify ==
    \E interval \in Cadences, hour \in VerifyHours :
        VerifyFundingData(interval, hour)

SpecFetch == Init /\ [][NextFetch]_vars
SpecClassify == InitC /\ [][NextClassify]_vars
SpecLog == InitL /\ [][NextClassify]_vars
SpecSched == Init /\ [][NextSched]_vars
SpecLoop == Init /\ [][NextLoop]_vars
SpecShared == Init /\ [][NextShared]_vars
SpecLaunch == Init /\ [][NextLaunch]_vars
SpecRealtime == Init /\ [][NextRealtime]_vars
SpecHistory == InitH /\ [][NextHistory]_vars
\* every probe of the binary search is one blocking request (timeout=30)
\* followed by time.sleep(0.5), so a search that has begun keeps taking steps
SpecHistoryLive ==
    /\ InitH
    /\ [][NextHistory]_vars
    /\ WF_vars(\E outcome \in FetchOutcomes : ProbeSearch(outcome))
SpecBackfill == InitB /\ [][NextBackfill]_vars
\* every iteration of the loop is one blocking request (timeout=30) and
\* returns, so the loop keeps taking steps while it has not left
SpecBackfillLive ==
    /\ InitB
    /\ [][NextBackfill]_vars
    /\ WF_vars(\E outcome \in FetchOutcomes : FetchPage(outcome))
SpecRunner == InitR /\ [][NextRunner]_vars
SpecReport == InitP /\ [][NextReport]_vars
SpecExtract == Init /\ [][NextExtract]_vars
SpecHandler == Init /\ [][NextHandler]_vars
SpecVerify == InitV /\ [][NextVerify]_vars

(***************************************************************************)
(* Properties                                                              *)
(***************************************************************************)

\* C1: any two consecutive outbound requests of the fetcher are at least
\* the minimum interval apart, whatever the callers' interleaving and
\* whether the requests return or raise
C1_MinSpacing ==
    \A i \in 1..(Len(issued) - 1) :
        issued[i + 1] - issued[i] >= MinRequestInterval

AliveThreads == {t \in ThreadIds : Alive(t)}
WorkingThreads ==
    {t \in ThreadIds : threads[t].pc = "handler" /\ threads[t].working}

\* C2: at most one polling loop of the scheduler is alive, and at most one
\* extraction/verification handler executes at a time
C2_OneLoopNoOverlap ==
    /\ Cardinality(AliveThreads) <= 1
    /\ Cardinality(WorkingThreads) <= 1

\* the TriggerSet of a cadence: the hours of the day that are multiples of
\* its period
Period(cad) == IF cad = "1h" THEN 1 ELSE IF cad = "4h" THEN 4 ELSE 8
TriggerSet(cad) == {h \in Hours : h % Period(cad) = 0}
JobsOfKind(kind) == {i \in DOMAIN jobs : jobs[i].kind = kind}
JobKey(j) == <<j.kind, j.cadence, j.at>>
RegisteredKeys == {JobKey(jobs[i]) : i \in DOMAIN jobs}
ExpectedKeysOf(cad) ==
    UNION {{<<"extract", cad, h * 60>>, <<"verify", cad, h * 60 + 5>>} :
              h \in TriggerSet(cad)}
ExpectedKeys ==
    UNION {ExpectedKeysOf(cad) : cad \in {c \in Cadences : Bucket(c) # <<>>}}

\* C3: a started scheduler has exactly one extraction trigger at hh:00 and
\* one verification trigger at hh:05 for every hour hh of the TriggerSet of
\* every non-empty bucket, and no other trigger
C3_TriggersRegistered ==
    is_running =>
        /\ RegisteredKeys = ExpectedKeys
        /\ Cardinality(RegisteredKeys) = Len(jobs)

\* C3 witness: 8h and 4h buckets filled, 1h empty: 3 + 6 = 9 extraction and
\* 9 verification triggers
C3_Witness ==
    /\ is_running
    /\ symbols_8h # <<>> /\ symbols_4h # <<>> /\ symbols_1h = <<>>
    /\ Cardinality(JobsOfKind("extract")) = 9
    /\ Cardinality(JobsOfKind("verify")) = 9

\* C4: when stop_scheduler, called while running, has returned, the flag
\* is down, no trigger is registered and the result is success
C4_StopLeavesStopped ==
    (ctl.pc = "idle" /\ ctl.last_call = "stop" /\ ctl.was_running) =>
        /\ ~is_running
        /\ jobs = <<>>
        /\ ctl.last_result = TRUE

\* C4 witness: stop returned although the joined loop is still alive
C4_Witness ==
    /\ ctl.pc = "idle" /\ ctl.last_call = "stop" /\ ctl.was_running
    /\ Alive(scheduler_thread)

\* C5: a start_scheduler call made while running and a stop_scheduler call
\* made while stopped return success and leave triggers, loops, buckets
\* and the running flag as they were
C5_NoopCalls ==
    [][(/\ ctl.pc = "idle"
        /\ ctl'.calls = ctl.calls + 1
        /\ \/ ctl'.last_call = "start" /\ is_running
           \/ ctl'.last_call = "stop" /\ ~is_running)
       => /\ ctl'.last_result = TRUE
          /\ UNCHANGED <<is_running, scheduler_thread, jobs, threads,
                         symbols_1h, symbols_4h, symbols_8h>>]_vars

\* C5 witness: both kinds of early return have happened
C5_Witness == ctl.noops = {"start", "stop"}

\* C6: a loop that was alive when stop_scheduler ran starts no further
\* batch: at its next poll it leaves the loop
C6_SignalledLoopExits ==
    [][\A t \in ThreadIds :
          (threads[t].pc = "poll" /\ stop_signalled[t])
              => threads'[t].pc \in {"poll", "dead"}]_vars

BucketsOf(s) == {cad \in Cadences : s \in Range(Bucket(cad))}

\* C7: after categorization every instrument is in exactly one bucket
C7_ExactlyOneBucket ==
    categorized => \A s \in SymSet : Cardinality(BucketsOf(s)) = 1

\* C8: after categorization the 8h bucket is non-empty and the 1h bucket
\* holds all N symbols
C8_AllSymbolsMonitored1h ==
    categorized => (symbols_8h # <<>> /\ Len(symbols_1h) = Len(Symbols))

\* C9: every decision the classifier logs follows the cadence rule: hours
\* 4, 12, 20 give 4h; hours 0, 8, 16 give 8h; other hours give 8h
C9_CadenceRule ==
    \A i \in DOMAIN cache_data.detection_history :
        LET r == cache_data.detection_history[i] IN
        /\ r.next_funding_hour \in Hours
        /\ r.next_funding_hour \in {4, 12, 20} => r.detected_interval = "4h"
        /\ r.next_funding_hour \in {0, 8, 16} => r.detected_interval = "8h"
        /\ r.next_funding_hour % 4 # 0 => r.detected_interval = "8h"

\* C9 witness: decisions for an unambiguous 4h hour and for an 8h hour
C9_Witness ==
    \E i, j \in DOMAIN cache_data.detection_history :
        /\ cache_data.detection_history[i].next_funding_hour = 20
        /\ cache_data.detection_history[i].detected_interval = "4h"
        /\ cache_data.detection_history[j].next_funding_hour = 16
        /\ cache_data.detection_history[j].detected_interval = "8h"

CachedBefore == {s \in Range(last_detect.symbols) : last_detect.before[s] # "none"}

\* C10: a call without force_update answers cached instruments from the
\* cache, makes no request when all are cached, and at most one otherwise
C10_CacheHit ==
    (detect_calls > 0 /\ ~last_detect.force_update) =>
        /\ CachedBefore = Range(last_detect.symbols) => last_detect.requests = 0
        /\ last_detect.raised \/
              \A s \in CachedBefore : last_detect.result[s] = last_detect.before[s]
        /\ last_detect.requests <= 1

\* C10 witness: both instruments asked for, both cached, no request made
C10_Witness ==
    /\ detect_calls > 0 /\ ~last_detect.force_update /\ ~last_detect.raised
    /\ last_detect.symbols = Symbols
    /\ CachedBefore = SymSet
    /\ last_detect.requests = 0
    /\ last_detect.result = last_detect.before

(***************************************************************************)
(* C11: when the snapshot request of a categorization fails entirely       *)
(* (non-200 answer or exception), every instrument that was not in the     *)
(* cache is in the 8h bucket, no cache entry is written for it, nothing is *)
(* persisted, and the categorization after a failed one requests the       *)
(* snapshot again for the instruments still missing.                       *)
(***************************************************************************)
Uncached(cd) == {s \in SymSet : cd.intervals[s] = "none"}

C11_FailedSnapshotDefaults8h ==
    /\ CategorizationFailed =>
          /\ \A s \in Uncached(last_cat.before) :
                 /\ s \in Range(symbols_8h)
                 /\ s \notin Range(symbols_4h)
                 /\ cache_data.intervals[s] = "none"
          /\ cache_data = last_cat.before
          /\ cache_file = last_cat.file_before
    /\ (categorized /\ last_cat.prev_failed) =>
          /\ last_cat.requests = 1
          /\ Uncached(last_cat.before) # {}

\* a categorization failed after a failed one, with an instrument uncached
C11_Witness ==
    /\ CategorizationFailed
    /\ last_cat.prev_failed
    /\ Uncached(last_cat.before) # {}
    /\ Len(symbols_8h) = Len(Symbols)

(***************************************************************************)
(* C12: start-time discovery is idempotent and its cache is write-once:    *)
(* once a call has returned t, the cache entry is t for ever, and every    *)
(* later call returns t without issuing a request.                         *)
(***************************************************************************)
C12_DiscoveryIdempotent ==
    /\ hlog.first.some => symbol_start_times = hlog.first
    /\ hlog.calls >= 1 => disc.pc = "idle"
    /\ hlog.calls >= 2 => (hlog.last = hlog.first /\ hlog.last_requests = 0)

\* a value found by the binary search was returned by a second call
C12_Witness ==
    /\ hlog.calls >= 2
    /\ hlog.first.some
    /\ hlog.first.val \notin {EarliestPossible, DefaultStartTime}
    /\ hlog.last = hlog.first

(***************************************************************************)
(* C20: once a history fetch for the instrument was answered 403, the      *)
(* instrument is in the blacklist and no later request is issued for it.   *)
(***************************************************************************)
C20_NoRequestAfterForbidden ==
    ~hlog.after_forbidden

(***************************************************************************)
(* C13: for every extraction run, whichever batches fail, success_count    *)
(* plus the number of failed instruments is total_count, and total_count   *)
(* is the number of instruments passed in.                                 *)
(***************************************************************************)
C13_CountsAddUp ==
    runner.pc = "returned" =>
        /\ runner.result.success_count + Len(runner.result.failed_symbols)
               = runner.result.total_count
        /\ runner.result.total_count = runner.n

\* a run over three batches of which the second failed
C13_Witness ==
    /\ runner.pc = "returned"
    /\ runner.interval = "4h"
    /\ runner.n = 45
    /\ runner.raising = {2}
    /\ runner.result.success_count = 25
    /\ Len(runner.result.failed_symbols) = 20

(***************************************************************************)
(* C14: when the update call of a batch fails (the market-data request or  *)
(* the persistence fails), the instruments of that batch, and of no other  *)
(* batch, are in failed_symbols, and the other batches are processed.      *)
(***************************************************************************)
BatchOf(k, interval) == ((k - 1) \div BatchSize(interval)) + 1

C14_FailedBatchReported ==
    handler_run.completed =>
        /\ \A k \in 1..handler_run.n :
               (k \in Range(handler_run.result.failed_symbols))
                   <=> (handler_run.outcomes[BatchOf(k, handler_run.interval)]
                            \in FailedOutcomes)
        /\ Len(handler_run.result.successful_symbols)
               + Len(handler_run.result.failed_symbols) = handler_run.n

(***************************************************************************)
(* C18: the 1h handler produces a cycle-result notification exactly when   *)
(* success_count is below 90% of the bucket size; 95 of 100 produces none, *)
(* 89 of 100 produces one.                                                 *)
(***************************************************************************)
C18_OneHourThreshold ==
    (report.pc = "done" /\ report.interval = "1h") =>
        /\ report.forwarded <=> (10 * report.success_count < 9 * report.n)
        /\ report.delivered <=> report.forwarded
        /\ (report.n = 100 /\ report.success_count = 95) => ~report.forwarded
        /\ (report.n = 100 /\ report.success_count = 89) => report.forwarded

\* 89 of 100 was reported
C18_Witness ==
    /\ report.pc = "done"
    /\ report.interval = "1h"
    /\ report.n = 100
    /\ report.success_count = 89
    /\ report.delivered

C15_FreshStaleMissing ==
    (verify_run.pc = "done" /\ ~store.fails) =>
        LET r == verify_run.result IN
        /\ r.stale_symbols["fresh"] = 0 /\ r.missing_symbols["fresh"] = 0
        /\ r.stale_symbols["old"] = store.count["old"]
        /\ r.missing_symbols["old"] = 0
        /\ r.missing_symbols["none"] = store.count["none"]
        /\ r.stale_symbols["none"] = 0
        /\ store.count["edge"] = 0 =>
               r.rate_num * GroupSum(store.count)
                   = store.count["fresh"] * r.rate_den

(***************************************************************************)
(* C16: a verification run sends a verification alert if and only if the   *)
(* success rate is below the alert threshold or the number of problematic  *)
(* (missing or stale) instruments is above the count threshold, with       *)
(* thresholds (0.85, 20) for 1h and (0.95, 5) for 4h and 8h; no alert is   *)
(* sent when no instrument is problematic.                                 *)
(***************************************************************************)
Problematic(r) == GroupSum(r.missing_symbols) + GroupSum(r.stale_symbols)

C16_AlertPolicy ==
    verify_run.pc = "done" =>
        LET r == verify_run.result
            one_hour == verify_run.interval = "1h"
            rate_below == IF one_hour
                          THEN r.rate_num * 100 < 85 * r.rate_den
                          ELSE r.rate_num * 100 < 95 * r.rate_den
            count_above == IF one_hour THEN Problematic(r) > 20
                           ELSE Problematic(r) > 5
        IN /\ verify_run.verification_alert <=> (rate_below \/ count_above)
           /\ Problematic(r) = 0 => ~verify_run.verification_alert

\* a 1h run alerted on 21 missing instruments with a success rate of 85%
C16_Witness ==
    /\ verify_run.pc = "done"
    /\ verify_run.interval = "1h"
    /\ ~store.fails
    /\ verify_run.verification_alert
    /\ Problematic(verify_run.result) = 21
    /\ verify_run.result.rate_num * 100 >= 85 * verify_run.result.rate_den

(***************************************************************************)
(* C17: when the verification query itself fails, an error alert is sent   *)
(* and no verification alert; for 1h the error alert is sent only in the   *)
(* hours divisible by 6, for 4h and 8h on every failure.                   *)
(***************************************************************************)
C17_QueryFailureErrorAlert ==
    (verify_run.pc = "done" /\ store.fails) =>
        /\ ~verify_run.verification_alert
        /\ verify_run.interval # "1h" => verify_run.error_alert
        /\ (verify_run.interval = "1h" /\ verify_run.error_alert)
               => verify_run.hour % 6 = 0


\* C21: a call of get_funding_rate_history answered with 429 sent exactly one
\* request, slept the fixed 5 seconds and returned the empty list, also when
\* the exchange holds records at or after the requested start.
C21_RateLimitedOneRequest ==
    hlog.fetch.outcome = "rate_limited" =>
        /\ hlog.fetch.requests = 1
        /\ hlog.fetch.slept = RateLimitSleep
        /\ ~hlog.fetch.data

C21_Witness ==
    /\ hlog.fetch.outcome = "rate_limited"
    /\ instrument.has_data
    /\ disc.pc = "anchors"
    /\ disc.idx = 2
    /\ disc.requests = 1

\* C24: when a discovery returns a start it found (not the fallback), a probe
\* starting at exactly that instant returned records during that discovery.
C24_ReturnedStartWasProbed ==
    (hlog.calls > 0 /\ hlog.found) => hlog.witnessed

C24_Witness ==
    /\ hlog.found
    /\ hlog.witnessed
    /\ hlog.last_requests >= 3
    /\ hlog.last.val # DefaultStartTime
    /\ hlog.fetch.outcome # "ok"

\* C25: the start time a discovery returns is never later than the
\* instrument's earliest settlement record, whatever probes failed.
C25_StartNotAfterEarliest ==
    (hlog.last.some /\ instrument.has_data) =>
        hlog.last.val <= instrument.first

\* C23: within one first-time backfill every page request after the first
\* starts strictly after the start of the request before it and strictly
\* after every fundingTime returned so far, and the records it returns are
\* all later than the ones returned before (no record is fetched twice).
C23_CursorStrictlyIncreases ==
    backfill.chunk_count >= 2 =>
        /\ backfill.page.start > backfill.prev_start.val
        /\ backfill.returned_max.some
        /\ backfill.page.start > backfill.returned_max.val
        /\ backfill.page.count > 0 =>
               backfill.page.lo > backfill.returned_max.val

C23_Witness ==
    /\ backfill.chunk_count = MaxPages
    /\ backfill.pc = "done"
    /\ backfill.page.count = 500
    /\ backfill.all_data = RecordCount(instrument)

\* C22: a failing pass never ends the polling loop: from a handler the thread
\* goes on with the next handler, back to polling, or into the 60 second
\* back-off, which leads back to polling; a thread ends only from the loop
\* condition, after a stop was signalled to it.
C22_FailureNeverEndsLoop ==
    [][\A t \in ThreadIds :
          /\ threads[t].pc = "handler" =>
                 threads'[t].pc \in {"handler", "poll", "backoff"}
          /\ threads[t].pc = "backoff" =>
                 /\ SleepOf(threads[t].pc) = 60
                 /\ threads'[t].pc \in {"backoff", "poll"}
          /\ (threads[t].pc # "dead" /\ threads'[t].pc = "dead") =>
                 (threads[t].pc = "poll" /\ stop_signalled[t] /\ ~is_running)]_vars

\* history is not kept of earlier failures, so the witness is the back-off
\* itself with the failed job still due while the scheduler runs
C22_Witness ==
    \E t \in ThreadIds :
        /\ threads[t].pc = "backoff"
        /\ is_running
        /\ ~stop_signalled[t]
        /\ \E i \in DOMAIN jobs : jobs[i].pending

\* C26: whatever happens to the start and result notifications of a handler
\* run over a non-empty bucket (delivered, throttled, failed, exception in
\* the gateway), the handler extracts, obtains the BatchResult the bucket and
\* the update outcomes determine, and records the completion timestamp,
\* without reaching its error branch.
C26_SendOutcomeIrrelevant ==
    (handler_run.runs > 0 /\ handler_run.n > 0) =>
        /\ handler_run.completed
        /\ ~handler_run.error_alert
        /\ \E k \in DOMAIN handler_run.events :
               handler_run.events[k] = "Extract"
        /\ handler_run.result =
               ExtractFundingData(Bucketful(handler_run.n),
                                  handler_run.interval, {})
        /\ handler_run.stamp[handler_run.interval] = handler_run.runs

C26_Witness ==
    /\ handler_run.n > 0
    /\ handler_run.send_start = "exception"
    /\ handler_run.send_result = "failed"
    /\ handler_run.events = <<"CycleStart", "Extract", "CycleResult", "Stamp">>
    /\ handler_run.stamp[handler_run.interval] = handler_run.runs

\* the order of the steps of a run over a non-empty bucket, with or without
\* the start event
StepsInOrder(with_start) ==
    LET e == handler_run.events
        tail == IF with_start THEN Tail(e) ELSE e
    IN /\ with_start => (e # <<>> /\ Head(e) = "CycleStart")
       /\ \/ tail = <<"Extract", "CycleResult", "Stamp">>
          \/ (tail = <<"Extract", "Stamp">> /\ ~handler_run.forwarded)
       /\ handler_run.stamp[handler_run.interval] = handler_run.runs

\* a run over an empty bucket does nothing and leaves every
\* last-execution timestamp as it was
EmptyRunIsNoop ==
    /\ handler_run.events = <<>>
    /\ handler_run.stamp = handler_run.stamp_before

\* C29 as stated: every run over a non-empty bucket records the start event
\* first, then extracts, passes the result to the gateway step and stamps
\* the completion; a run over an empty bucket does nothing.
C29_EveryRunStartsWithCycleStart ==
    handler_run.runs > 0 =>
        IF handler_run.n > 0 THEN StepsInOrder(TRUE) ELSE EmptyRunIsNoop

\* C29 amended: the start event is recorded by every 4h and 8h run and by
\* the 1h runs at hours divisible by 4; the other 1h runs begin with the
\* extraction; the order of the remaining steps and the empty-bucket case
\* are as stated.
C29_StartEventWhenDue ==
    handler_run.runs > 0 =>
        IF handler_run.n > 0
        THEN StepsInOrder(handler_run.interval # "1h"
                          \/ handler_run.hour % 4 = 0)
        ELSE EmptyRunIsNoop

\* a 1h run at 03:00 without start event, after an earlier 1h run
C29_Witness ==
    /\ handler_run.runs = 2
    /\ handler_run.n > 0
    /\ handler_run.interval = "1h"
    /\ handler_run.hour = 3
    /\ handler_run.events = <<"Extract", "Stamp">>
    /\ handler_run.stamp_before["1h"] = 1
    /\ handler_run.stamp["1h"] = 2

\* C27: whenever no classify call is in progress, the decision log holds at
\* most 100 records, and they are the most recent ones in append order:
\* their detection times are consecutive.
C27_LogCapped ==
    LET h == cache_data.detection_history
    IN /\ Len(h) <= HistoryCap
       /\ \A i \in 1..(Len(h) - 1) :
              h[i + 1].detection_time = h[i].detection_time + 1

\* C28: the scheduler and the realtime extractor of one process are
\* independent: a step in which one of them starts or stops leaves the
\* triggers the other one registered unchanged.
C28_InstancesIndependent ==
    [][/\ realtime'.is_running # realtime.is_running =>
              SchedulerJobs(jobs') = SchedulerJobs(jobs)
       /\ is_running' # is_running =>
              RealtimeJobs(jobs') = RealtimeJobs(jobs)]_vars

\* the job a thread is executing
Running(t, kind, cadence, at) ==
    /\ threads[t].pc = "handler"
    /\ Head(threads[t].batch).kind = kind
    /\ Head(threads[t].batch).cadence = cadence
    /\ Head(threads[t].batch).at = at

\* C30: while the verification handler of a cadence and boundary runs, the
\* extraction handler of that cadence and boundary is neither running nor
\* still due: it has finished.
C30_VerifyAfterExtract ==
    \A t \in ThreadIds :
        (threads[t].pc = "handler" /\ Head(threads[t].batch).kind = "verify") =>
            LET v == Head(threads[t].batch)
            IN /\ \A u \in ThreadIds :
                      ~Running(u, "extract", v.cadence, v.at - 5)
               /\ \A i \in DOMAIN jobs :
                      (/\ jobs[i].kind = "extract"
                       /\ jobs[i].cadence = v.cadence
                       /\ jobs[i].at = v.at - 5) => ~jobs[i].pending

\* what the loop has done so far, given how it left: before it leaves every
\* page was full and fewer than max_chunks pages were read; it leaves on the
\* first page that is empty or short, or on page max_chunks
LoopWithinLimits ==
    /\ backfill.chunk_count <= MaxChunks
    /\ backfill.pc = "paging" =>
           /\ backfill.chunk_count < MaxChunks
           /\ backfill.full_pages = backfill.chunk_count
           /\ backfill.stopped_by = "none"
    /\ backfill.pc \in {"done", "returned"} =>
           /\ backfill.chunk_count >= 1
           /\ backfill.stopped_by \in {"empty", "short", "cap"}
           /\ backfill.stopped_by = "empty" =>
                  /\ backfill.page.count = 0
                  /\ backfill.full_pages = backfill.chunk_count - 1
           /\ backfill.stopped_by = "short" =>
                  /\ backfill.page.count \in 1..(PageLimit - 1)
                  /\ backfill.full_pages = backfill.chunk_count - 1
           /\ backfill.stopped_by = "cap" =>
                  /\ backfill.chunk_count = MaxChunks
                  /\ backfill.full_pages = MaxChunks

\* C31: the first-time backfill loop always terminates: it leaves on the
\* first page that is empty or shorter than 1000 records, and otherwise after
\* page 200, whatever the market-data source answers.
C31_BackfillTerminates ==
    /\ []LoopWithinLimits
    /\ (backfill.pc = "paging") ~> (backfill.pc = "done")

\* C31 witness: a source that always had another full page was cut off by
\* the chunk limit
C31_Witness ==
    /\ backfill.pc = "done"
    /\ backfill.stopped_by = "cap"
    /\ backfill.chunk_count = MaxChunks
    /\ backfill.all_data = MaxChunks * PageLimit
    /\ backfill.all_data < RecordCount(instrument)

\* the latest page request of the loop failed (403, 429 or a network error)
PageFailed == backfill.page.outcome \in FetchOutcomes \ {"ok"}

\* C37: a failed page fetch during the first-time backfill looks like the end
\* of the history: the loop leaves by its empty-page exit, every record of
\* the pages collected before goes to transform_and_save_data, and the call
\* returns True once they are stored, and also when nothing was fetched.
C37_FailedPageEndsHistory ==
    (PageFailed /\ backfill.pc \in {"done", "returned"}) =>
        /\ backfill.stopped_by = "empty"
        /\ backfill.page.count = 0
        /\ backfill.all_data = (backfill.chunk_count - 1) * PageLimit
        /\ backfill.pc = "returned" =>
               /\ backfill.handed = backfill.all_data
               /\ backfill.persisted = backfill.handed => backfill.result
               /\ backfill.all_data = 0 => backfill.result

\* C37 witness: the second page failed while the source held more records;
\* the first page was stored and the call returned True
C37_Witness ==
    /\ backfill.pc = "returned"
    /\ backfill.page.outcome = "network_error"
    /\ backfill.chunk_count = 2
    /\ backfill.persisted = PageLimit
    /\ backfill.result
    /\ RecordCount(instrument) > PageLimit

\* the search interval [left, right] lies between the earliest possible
\* instant and the test period that had data, which is more than 30 days
\* after the earliest possible instant
SearchInterval(left, right, coarse) ==
    /\ coarse.some
    /\ (coarse.val - EarliestPossible) > SearchThreshold
    /\ EarliestPossible <= left
    /\ left <= right
    /\ right <= coarse.val

SearchWithinLimits ==
    /\ disc.pc = "search" =>
           /\ SearchInterval(disc.left, disc.right, disc.earliest_with_data)
           /\ disc.search_count < MaxSearches
    /\ hlog.final.search_count > 0 =>
           /\ SearchInterval(hlog.final.left, hlog.final.right,
                             hlog.final.coarse)
           /\ hlog.final.search_count <= MaxSearches
    /\ (hlog.final.coarse.some
        /\ (hlog.final.coarse.val - EarliestPossible) <= SearchThreshold) =>
           hlog.final.search_count = 0

\* C32: the binary search of the discovery runs only when the test period
\* with data is more than 30 days after the earliest possible instant, makes
\* at most 10 probes, keeps floor <= left <= right <= that test period, and
\* ends.
C32_SearchBoundedAndTerminates ==
    /\ []SearchWithinLimits
    /\ (disc.pc = "search") ~> (disc.pc = "idle")

\* C32 witness: a search that was stopped by the probe limit with the
\* interval still open
C32_Witness ==
    /\ hlog.final.search_count = MaxSearches
    /\ hlog.final.left < hlog.final.right
    /\ hlog.final.left > EarliestPossible
    /\ hlog.final.right < hlog.final.coarse.val

\* C38: the first test period is the earliest possible instant, so the binary
\* search begins only in a discovery whose probe at the first test period
\* returned nothing; when that probe returns records the discovery returns
\* the earliest possible instant after exactly one request.
C38_FirstProbeDecides ==
    /\ disc.pc = "search" => (~disc.first_data /\ disc.idx >= 2)
    /\ hlog.final.search_count > 0 =>
           (~hlog.final.first_data /\ hlog.final.anchors >= 2)
    /\ hlog.final.first_data =>
           /\ hlog.last = Some(EarliestPossible)
           /\ hlog.last_requests = 1
           /\ hlog.final.search_count = 0

\* C38 witness: the instrument was listed years after the earliest possible
\* instant, the first probe returned its records, and the discovery returned
\* the earliest possible instant after one request
C38_Witness ==
    /\ hlog.final.first_data
    /\ hlog.last = Some(EarliestPossible)
    /\ hlog.last_requests = 1
    /\ instrument.first > EarliestPossible + SearchThreshold

\* C33: when no test period has data (every probe failed or came back
\* empty) the discovery returns the default 2019-09-01 and stores it in the
\* start-time cache and its file like a discovered value; every later call
\* returns it without a request.
C33_FallbackCached ==
    hlog.fallback_call > 0 =>
        /\ symbol_start_times = Some(DefaultStartTime)
        /\ start_times_file = Some(DefaultStartTime)
        /\ hlog.last = Some(DefaultStartTime)
        /\ hlog.calls = hlog.fallback_call =>
               /\ ~hlog.found
               /\ hlog.last_requests = Len(Probed)
               /\ hlog.final.anchors = Len(Probed)
        /\ hlog.calls > hlog.fallback_call => hlog.last_requests = 0

\* C33 witness: an instrument with records whose probes all failed got the
\* default, and the next call returned the default from the cache
C33_Witness ==
    /\ instrument.has_data
    /\ hlog.fallback_call = 1
    /\ hlog.calls = 2
    /\ hlog.last = Some(DefaultStartTime)
    /\ hlog.last_requests = 0

\* the instruments the latest classify call classified itself: asked for,
\* not answered from the cache, and given a cadence
NewlyClassified ==
    {s \in Range(last_detect.symbols) :
        /\ last_detect.force_update \/ last_detect.before[s] = "none"
        /\ last_detect.result[s] # "none"}

InCacheAsDecided(s) == cache_data.intervals[s] = last_detect.result[s]

InDecisionLog(s) ==
    \E i \in DOMAIN cache_data.detection_history :
        /\ cache_data.detection_history[i].symbol = s
        /\ cache_data.detection_history[i].detected_interval =
               last_detect.result[s]

\* C34: when a classify call returns, every instrument it newly classified,
\* also one defaulted to 8h for lack of a settlement time, is in the
\* classification cache with the decided cadence and has an entry of the
\* decision log for that decision.
C34_ClassifiedCachedAndLogged ==
    (detect_calls > 0 /\ ~last_detect.raised) =>
        \A s \in NewlyClassified : InCacheAsDecided(s) /\ InDecisionLog(s)

C36_FailedStartLeavesStopped ==
    (ctl.pc = "idle" /\ ctl.last_call = "start" /\ ~ctl.last_result) =>
        /\ ~is_running
        /\ scheduler_thread = 0 \/ ~Alive(scheduler_thread)
        /\ \A i \in DOMAIN jobs : jobs[i].id[1] # ctl.calls

\* how often symbol s occurs in a bucket
Occurrences(s, bucket) == Cardinality({i \in DOMAIN bucket : bucket[i] = s})

\* C39: after any sequence of start_realtime_extraction and
\* stop_realtime_extraction calls, restarts and failed funding-info requests
\* included, every monitored symbol occurs exactly once in symbols_4h and
\* symbols_8h together.
C39_RealtimeExactlyOneBucket ==
    \A s \in Range(realtime.symbols) :
        Occurrences(s, realtime.symbols_4h)
            + Occurrences(s, realtime.symbols_8h) = 1
====
